---- MODULE Spec2Model ----
(***************************************************************************)
(* Model of cookiecutter-uv: the dependency-version updaters               *)
(* (cookiecutter_uv/cicd), the pre-generation hook and the post-generation *)
(* hook with its automated GitHub setup.                                   *)
(*                                                                         *)
(* Text is a sequence of tokens.  A token is a chunk of characters: the    *)
(* literals the regular expressions name ("uv-version:", ">=", a quote),   *)
(* a digit, a dot, white space, a piece of a package name.  The regular    *)
(* expressions are matched token by token, leftmost first and greedy, as   *)
(* Python's re module matches them character by character.                 *)
(***************************************************************************)
EXTENDS Integers, Sequences, FiniteSets, TLC

VARIABLES
    kind,       \* which updater object was constructed
    self_files, \* self.files (for PreCommitConfigUpdater: <<self.config_file>>)
    fs,         \* the file system: path -> text, for the paths that exist
    upstream,   \* what the registry / hosting API answers: target -> tag, <<>> on failure
    layout0,    \* ghost: the structure the files were written from
    prev,       \* ghost: summary of the update() call before the last one
    last,       \* ghost: record of the last update() call
    cookiecutter,   \* the template context: the values rendered into a hook
    pre_pc,     \* pre-generation hook: the check it is at
    pre_status, \* pre-generation hook: its exit status once it has exited
    uv,         \* pre-generation hook: what `uv python list` did
    post_pc,    \* post-generation hook: the statement it is at
    tree,       \* post-generation hook: the project directory, path -> entry
    trace,      \* post-generation hook: file operations and external commands, in order
    setup,      \* setup_github_repository: its arguments, locals and return value
    remote      \* the repository on GitHub

updVars == <<kind, self_files, fs, upstream, layout0, prev, last>>
preVars == <<pre_pc, pre_status, uv>>
postVars == <<post_pc, tree, trace, setup, remote>>

vars == <<updVars, cookiecutter, preVars, postVars>>

(***************************************************************************)
(* Bounds                                                                  *)
(***************************************************************************)
\* Entries (dependency lines, input blocks, hook blocks) per generated file.
MaxEntries == 2
\* Characters of a project name and of a project slug.
MaxNameLen == 2

(***************************************************************************)
(* Text helpers                                                            *)
(***************************************************************************)
Q == "\""
NL == "\n"
SP == " "

Digits == {"0", "1", "2", "3"}

IsSpace(t) == t \in {SP, NL}

\* Python: `not version` holds of None and of the empty string alike.
None == <<>>

\* Op applied to the value of v, v evaluated once (a bound variable holds a
\* value; a LET definition is evaluated again at each use).
With(v, Op(_)) == CHOOSE y \in { Op(x) : x \in {v} } : TRUE

Min(S) == CHOOSE x \in S : \A y \in S : x <= y

StartsWithAt(s, i, lit) ==
    /\ i >= 1
    /\ i + Len(lit) - 1 <= Len(s)
    /\ \A k \in 1..Len(lit) : s[i + k - 1] = lit[k]

\* Index of the first token t at or after i, 0 when there is none.
IndexFrom(s, i, t) ==
    IF \E j \in i..Len(s) : s[j] = t
    THEN CHOOSE j \in i..Len(s) : s[j] = t /\ \A k \in i..(j - 1) : s[k] # t
    ELSE 0

\* Index after the longest run of white space starting at i (\s*, greedy).
SkipSpace(s, i) ==
    IF \E j \in i..Len(s) : ~IsSpace(s[j])
    THEN CHOOSE j \in i..Len(s) : ~IsSpace(s[j]) /\ \A k \in i..(j - 1) : IsSpace(s[k])
    ELSE Len(s) + 1

\* Index after the longest run of digits starting at i ([0-9]+ needs j > i).
SkipDigits(s, i) ==
    IF \E j \in i..Len(s) : s[j] \notin Digits
    THEN CHOOSE j \in i..Len(s) : s[j] \notin Digits /\ \A k \in i..(j - 1) : s[k] \in Digits
    ELSE Len(s) + 1

\* \s*\n\s* from i: the white-space run must hold a newline; returns the index
\* after the run, 0 when the run holds no newline.
SkipSpaceNl(s, i) ==
    With(SkipSpace(s, i), LAMBDA e :
        IF \E k \in i..(e - 1) : s[k] = NL THEN e ELSE 0)

TokenAt(s, i, t) == i >= 1 /\ i <= Len(s) /\ s[i] = t

NoMatch == [end |-> 0, g1 |-> 0, g2 |-> 0]

(***************************************************************************)
(* cicd/config.py                                                          *)
(***************************************************************************)
\* Two of the tracked packages, in the list's order: the name of the first is
\* the beginning of the name of the second.
PYPI_PACKAGES == << <<"pytest">>, <<"pytest", "-cov">> >>

UV_REPO == "astral-sh/uv"

PREK_HOOKS ==
    << [repo_url |-> <<"https://github.com/pre-commit/pre-commit-hooks">>,
        github_repo |-> "pre-commit/pre-commit-hooks"],
       [repo_url |-> <<"https://github.com/astral-sh/ruff-pre-commit">>,
        github_repo |-> "astral-sh/ruff-pre-commit"] >>

(***************************************************************************)
(* cicd/fetchers.py.  `up` is what the network answers: the version or tag *)
(* name per target, <<>> when the request or the parse fails or the field  *)
(* is missing.                                                             *)
(***************************************************************************)
RECURSIVE LStripV(_)
LStripV(tag) ==
    IF tag # <<>> /\ Head(tag) = "v" THEN LStripV(Tail(tag)) ELSE tag

get_pypi_version(up, package) == up[package]

get_github_release(up, repo) ==
    LET tag == up[repo] IN IF tag # <<>> THEN LStripV(tag) ELSE None

get_github_tag(up, repo) ==
    LET tag == up[repo] IN IF tag # <<>> THEN LStripV(tag) ELSE None

(***************************************************************************)
(* cicd/updaters.py: PyprojectTomlUpdater                                  *)
(***************************************************************************)
\* ("PACKAGE(?:\[[^\]]*\])?)>=([^"]+)" matched at i: end is the index of the
\* closing quote (0: no match), g1 the index of the last token of group 1.
PyTail(s, k) ==
    IF /\ TokenAt(s, k, ">=")
       /\ k + 1 <= Len(s)
       /\ s[k + 1] # Q
    THEN IndexFrom(s, k + 2, Q)
    ELSE 0

\* Mutant: the pattern without its opening quote, so the name may begin
\* anywhere.  Group 1 then starts at the name.
PyprojectMatchAtUnquoted(s, i, package) ==
    IF ~StartsWithAt(s, i, package) THEN NoMatch
    ELSE
    With(i + Len(package), LAMBDA j :
    With(IF TokenAt(s, j, "[") THEN IndexFrom(s, j + 1, "]") ELSE 0, LAMBDA rb :
    With(IF rb # 0 THEN PyTail(s, rb + 1) ELSE 0, LAMBDA withExtras :
        IF withExtras # 0
        THEN [end |-> withExtras, g1 |-> rb, g2 |-> 0]
        ELSE With(PyTail(s, j), LAMBDA bare :
               IF bare # 0 THEN [end |-> bare, g1 |-> j - 1, g2 |-> 0] ELSE NoMatch))))

PyprojectMatchAt(s, i, package) ==
    IF ~(TokenAt(s, i, Q) /\ StartsWithAt(s, i + 1, package)) THEN NoMatch
    ELSE
    With(i + 1 + Len(package), LAMBDA j :
    With(IF TokenAt(s, j, "[") THEN IndexFrom(s, j + 1, "]") ELSE 0, LAMBDA rb :
    With(IF rb # 0 THEN PyTail(s, rb + 1) ELSE 0, LAMBDA withExtras :
        IF withExtras # 0
        THEN [end |-> withExtras, g1 |-> rb, g2 |-> 0]
        ELSE With(PyTail(s, j), LAMBDA bare :
               IF bare # 0 THEN [end |-> bare, g1 |-> j - 1, g2 |-> 0] ELSE NoMatch))))

\* _build_replacement: \g<1>>=VERSION"
PyprojectReplacement(s, i, m, version) ==
    SubSeq(s, i, m.g1) \o <<">=">> \o version \o <<Q>>

\* The leftmost index at or after i where the pattern matches, 0 when none.
PyprojectSearch(s, i, package) ==
    With({ j \in i..Len(s) : PyprojectMatchAt(s, j, package).end # 0 }, LAMBDA at :
        IF at = {} THEN 0 ELSE Min(at))

\* re.subn(pattern, replacement, content) from index i on: the matches are
\* taken leftmost first and do not overlap.
RECURSIVE PyprojectSubn(_, _, _, _)
PyprojectSubn(s, i, package, version) ==
    With(PyprojectSearch(s, i, package), LAMBDA j :
        IF j = 0 THEN [text |-> SubSeq(s, i, Len(s)), count |-> 0]
        ELSE With(PyprojectMatchAt(s, j, package), LAMBDA m :
             With(PyprojectSubn(s, m.end + 1, package, version), LAMBDA r :
                [text |-> SubSeq(s, i, j - 1)
                          \o PyprojectReplacement(s, j, m, version) \o r.text,
                 count |-> r.count + 1])))

\* re.search(pattern, content)
PyprojectMatches(content, package) == PyprojectSearch(content, 1, package) # 0

\* Mutant: the file is written whenever the pattern matched, changed or not.
PyprojectUpdateFileAlways(st, filepath, package, version) ==
    With(st.fs[filepath], LAMBDA content :
    With(PyprojectSubn(content, 1, package, version), LAMBDA r :
        IF r.count > 0
        THEN [st EXCEPT !.fs[filepath] = r.text,
                        !.writes = @ \cup {filepath},
                        !.count = @ + 1]
        ELSE st))

\* _update_file together with the caller's `update_count += 1` on True:
\* st is [fs, count, writes].
PyprojectUpdateFile(st, filepath, package, version) ==
    With(st.fs[filepath], LAMBDA content :
    With(PyprojectSubn(content, 1, package, version), LAMBDA r :
        IF r.count > 0 /\ r.text # content
        THEN [st EXCEPT !.fs[filepath] = r.text,
                        !.writes = @ \cup {filepath},
                        !.count = @ + 1]
        ELSE st))

\* Mutant: the dry-run branch is missing, every call updates the file.
PyprojectVisitLive(st, filepath, package, version, dry_run) ==
    IF filepath \notin DOMAIN st.fs THEN st
    ELSE PyprojectUpdateFile(st, filepath, package, version)

\* Mutant: a missing file is created, and counted.
PyprojectVisitCreate(st, filepath, package, version, dry_run) ==
    IF filepath \notin DOMAIN st.fs
    THEN [fs |-> (filepath :> <<>>) @@ st.fs,
          count |-> st.count + 1,
          writes |-> st.writes \cup {filepath}]
    ELSE IF dry_run
         THEN IF PyprojectMatches(st.fs[filepath], package)
              THEN [st EXCEPT !.count = @ + 1]
              ELSE st
         ELSE PyprojectUpdateFile(st, filepath, package, version)

\* The body of `for filepath in self.files`, for one file.
PyprojectVisit(st, filepath, package, version, dry_run) ==
    IF filepath \notin DOMAIN st.fs THEN st
    ELSE IF dry_run
         THEN IF PyprojectMatches(st.fs[filepath], package)
              THEN [st EXCEPT !.count = @ + 1]
              ELSE st
         ELSE PyprojectUpdateFile(st, filepath, package, version)

RECURSIVE PyprojectFiles(_, _, _, _, _, _)
PyprojectFiles(st, files, k, package, version, dry_run) ==
    IF k > Len(files) THEN st
    ELSE With(PyprojectVisit(st, files[k], package, version, dry_run), LAMBDA st1 :
           PyprojectFiles(st1, files, k + 1, package, version, dry_run))

\* The body of `for package in PYPI_PACKAGES`, for one package: `continue`
\* on a failed fetch.
PyprojectPackage(st, files, up, package, dry_run) ==
    With(get_pypi_version(up, package), LAMBDA version :
        IF version = None THEN st
        ELSE PyprojectFiles(st, files, 1, package, version, dry_run))

\* Mutant: a failed fetch ends the loop (`break` for `continue`).
RECURSIVE PyprojectLoopBreak(_, _, _, _, _, _)
PyprojectLoopBreak(st, packages, i, files, up, dry_run) ==
    IF i > Len(packages) \/ get_pypi_version(up, packages[i]) = None THEN st
    ELSE With(PyprojectPackage(st, files, up, packages[i], dry_run), LAMBDA st1 :
           PyprojectLoopBreak(st1, packages, i + 1, files, up, dry_run))

RECURSIVE PyprojectLoop(_, _, _, _, _, _)
PyprojectLoop(st, packages, i, files, up, dry_run) ==
    IF i > Len(packages) THEN st
    ELSE With(PyprojectPackage(st, files, up, packages[i], dry_run), LAMBDA st1 :
           PyprojectLoop(st1, packages, i + 1, files, up, dry_run))

\* update(dry_run) over a package list: the files afterwards, the count
\* returned and the paths written.
PyprojectUpdate(packages, files, fsys, up, dry_run) ==
    PyprojectLoop([fs |-> fsys, count |-> 0, writes |-> {}],
                  packages, 1, files, up, dry_run)

(***************************************************************************)
(* cicd/updaters.py: ActionYmlUpdater                                      *)
(***************************************************************************)
\* [0-9]+\.[0-9]+\.[0-9]+ from i: the index after it, 0 when it does not match.
SemverEnd(s, i) ==
    With(SkipDigits(s, i), LAMBDA a :
        IF ~(a > i /\ TokenAt(s, a, ".")) THEN 0
        ELSE With(SkipDigits(s, a + 1), LAMBDA b :
               IF ~(b > a + 1 /\ TokenAt(s, b, ".")) THEN 0
               ELSE With(SkipDigits(s, b + 1), LAMBDA c :
                      IF c > b + 1 THEN c ELSE 0)))

\* PATTERN matched at i: g1 is the index of the opening quote (the end of
\* group 1), end the index of the closing quote (group 2).
\* KEY[^\n]*\n\s* with KEY expected at k: the index after it, 0 on no match.
ActionLine(s, k, key) ==
    IF k = 0 \/ ~TokenAt(s, k, key) THEN 0
    ELSE With(IndexFrom(s, k + 1, NL), LAMBDA n :
           IF n = 0 THEN 0 ELSE SkipSpace(s, n + 1))

ActionMatchAt(s, i) ==
    IF ~TokenAt(s, i, "uv-version:") THEN NoMatch
    ELSE
    With(SkipSpaceNl(s, i + 1), LAMBDA d :
    With(ActionLine(s, d, "description:"), LAMBDA r :
    With(ActionLine(s, r, "required:"), LAMBDA f :
    With(IF f # 0 /\ TokenAt(s, f, "default:") THEN SkipSpace(s, f + 1) ELSE 0, LAMBDA q :
    With(IF q # 0 /\ TokenAt(s, q, Q) THEN SemverEnd(s, q + 1) ELSE 0, LAMBDA e :
        IF e # 0 /\ TokenAt(s, e, Q)
        THEN [end |-> e, g1 |-> q, g2 |-> e]
        ELSE NoMatch)))))

\* _build_replacement: \g<1>VERSION\2
ActionReplacement(s, i, m, version) ==
    SubSeq(s, i, m.g1) \o version \o <<s[m.g2]>>

ActionSearch(s, i) ==
    With({ j \in i..Len(s) : ActionMatchAt(s, j).end # 0 }, LAMBDA at :
        IF at = {} THEN 0 ELSE Min(at))

RECURSIVE ActionSubn(_, _, _)
ActionSubn(s, i, version) ==
    With(ActionSearch(s, i), LAMBDA j :
        IF j = 0 THEN [text |-> SubSeq(s, i, Len(s)), count |-> 0]
        ELSE With(ActionMatchAt(s, j), LAMBDA m :
             With(ActionSubn(s, m.end + 1, version), LAMBDA r :
                [text |-> SubSeq(s, i, j - 1)
                          \o ActionReplacement(s, j, m, version) \o r.text,
                 count |-> r.count + 1])))

ActionMatches(content) == ActionSearch(content, 1) # 0

\* _update_file together with the caller's `update_count += 1` on True.
ActionUpdateFile(st, filepath, version) ==
    With(st.fs[filepath], LAMBDA content :
    With(ActionSubn(content, 1, version), LAMBDA r :
        IF r.count > 0 /\ r.text # content
        THEN [st EXCEPT !.fs[filepath] = r.text,
                        !.writes = @ \cup {filepath},
                        !.count = @ + 1]
        ELSE st))

ActionVisit(st, filepath, version, dry_run) ==
    IF filepath \notin DOMAIN st.fs THEN st
    ELSE IF dry_run
         THEN IF ActionMatches(st.fs[filepath])
              THEN [st EXCEPT !.count = @ + 1]
              ELSE st
         ELSE ActionUpdateFile(st, filepath, version)

RECURSIVE ActionFiles(_, _, _, _, _)
ActionFiles(st, files, k, version, dry_run) ==
    IF k > Len(files) THEN st
    ELSE With(ActionVisit(st, files[k], version, dry_run), LAMBDA st1 :
           ActionFiles(st1, files, k + 1, version, dry_run))

ActionUpdate(files, fsys, up, dry_run) ==
    With(get_github_release(up, UV_REPO), LAMBDA version :
        IF version = None
        THEN [fs |-> fsys, count |-> 0, writes |-> {}]
        ELSE ActionFiles([fs |-> fsys, count |-> 0, writes |-> {}],
                         files, 1, version, dry_run))

(***************************************************************************)
(* cicd/updaters.py: PreCommitConfigUpdater                                *)
(***************************************************************************)
\* (- repo: URL\s*\n\s*rev:\s*")[^"]+(") matched at i.
PreCommitMatchAt(s, i, repo_url) ==
    IF ~(TokenAt(s, i, "- repo: ") /\ StartsWithAt(s, i + 1, repo_url)) THEN NoMatch
    ELSE
    With(SkipSpaceNl(s, i + 1 + Len(repo_url)), LAMBDA r :
    With(IF r # 0 /\ TokenAt(s, r, "rev:") THEN SkipSpace(s, r + 1) ELSE 0, LAMBDA q :
    With(IF q # 0 /\ TokenAt(s, q, Q) /\ q + 1 <= Len(s) /\ s[q + 1] # Q
         THEN IndexFrom(s, q + 2, Q) ELSE 0, LAMBDA e :
        IF e # 0 THEN [end |-> e, g1 |-> q, g2 |-> e] ELSE NoMatch)))

\* _build_replacement: \g<1>vVERSION\2
PreCommitReplacement(s, i, m, version) ==
    SubSeq(s, i, m.g1) \o <<"v">> \o version \o <<s[m.g2]>>

PreCommitSearch(s, i, repo_url) ==
    With({ j \in i..Len(s) : PreCommitMatchAt(s, j, repo_url).end # 0 }, LAMBDA at :
        IF at = {} THEN 0 ELSE Min(at))

RECURSIVE PreCommitSubn(_, _, _, _)
PreCommitSubn(s, i, repo_url, version) ==
    With(PreCommitSearch(s, i, repo_url), LAMBDA j :
        IF j = 0 THEN [text |-> SubSeq(s, i, Len(s)), count |-> 0]
        ELSE With(PreCommitMatchAt(s, j, repo_url), LAMBDA m :
             With(PreCommitSubn(s, m.end + 1, repo_url, version), LAMBDA r :
                [text |-> SubSeq(s, i, j - 1)
                          \o PreCommitReplacement(s, j, m, version) \o r.text,
                 count |-> r.count + 1])))

PreCommitMatches(content, repo_url) == PreCommitSearch(content, 1, repo_url) # 0

\* _update_hook: (new_content, updated)
PreCommitUpdateHook(content, repo_url, version) ==
    With(PreCommitSubn(content, 1, repo_url, version), LAMBDA r :
        IF r.count > 0 /\ r.text # content
        THEN [content |-> r.text, updated |-> TRUE]
        ELSE [content |-> content, updated |-> FALSE])

\* The body of `for repo_url, github_repo in PREK_HOOKS`, for one hook:
\* lp is [content, count].
PreCommitHook(lp, up, hook, dry_run) ==
    With(get_github_tag(up, hook.github_repo), LAMBDA version :
        IF version = None THEN lp
        ELSE IF dry_run
             THEN IF PreCommitMatches(lp.content, hook.repo_url)
                  THEN [lp EXCEPT !.count = @ + 1]
                  ELSE lp
             ELSE With(PreCommitUpdateHook(lp.content, hook.repo_url, version), LAMBDA u :
                    IF u.updated
                    THEN [content |-> u.content, count |-> lp.count + 1]
                    ELSE lp))

RECURSIVE PreCommitLoop(_, _, _, _, _)
PreCommitLoop(lp, hooks, i, up, dry_run) ==
    IF i > Len(hooks) THEN lp
    ELSE With(PreCommitHook(lp, up, hooks[i], dry_run), LAMBDA lp1 :
           PreCommitLoop(lp1, hooks, i + 1, up, dry_run))

PreCommitUpdate(hooks, config_file, fsys, up, dry_run) ==
    IF config_file \notin DOMAIN fsys
    THEN [fs |-> fsys, count |-> 0, writes |-> {}]
    ELSE With(PreCommitLoop([content |-> fsys[config_file], count |-> 0],
                            hooks, 1, up, dry_run), LAMBDA lp :
           IF ~dry_run /\ lp.count > 0
           THEN [fs |-> [fsys EXCEPT ![config_file] = lp.content],
                 count |-> lp.count, writes |-> {config_file}]
           ELSE [fs |-> fsys, count |-> lp.count, writes |-> {}])

(***************************************************************************)
(* The files the updaters are run on.  A file is written from a layout: a  *)
(* sequence of entries [t, name, extras, ver].                             *)
(***************************************************************************)
V1 == <<"1", ".", "0", ".", "0">>
V2 == <<"2", ".", "0", ".", "0">>

Entry(t, name, extras, ver) == [t |-> t, name |-> name, extras |-> extras, ver |-> ver]

\* pyproject.toml: dependency lines and a line of other text.
PyEntries ==
    { Entry("dep", <<"pytest">>, FALSE, V1),
      Entry("dep", <<"pytest">>, FALSE, V2),
      Entry("dep", <<"pytest">>, TRUE, V1),
      Entry("dep", <<"pytest", "-cov">>, FALSE, V1),
      Entry("dep", <<"pytest", "-xdist">>, FALSE, V1),
      Entry("dep", <<"my-", "pytest">>, FALSE, V1),
      Entry("text", <<"pytest">>, FALSE, <<>>) }

\* action.yml: input blocks.
ActionEntries ==
    { Entry("uv-version:", <<>>, TRUE, V1),
      Entry("uv-version:", <<>>, TRUE, V2),
      Entry("uv-version:", <<>>, TRUE, <<"latest">>),
      Entry("uv-version:", <<>>, FALSE, V1),
      Entry("python-version:", <<>>, TRUE, <<"3", ".", "1", "2">>) }

\* .pre-commit-config.yaml: hook blocks.
OtherHookUrl == PREK_HOOKS[2].repo_url \o <<"-mirror">>

PreCommitEntries ==
    { Entry("hook", PREK_HOOKS[1].repo_url, FALSE, <<"v">> \o V1),
      Entry("hook", PREK_HOOKS[1].repo_url, FALSE, <<"v">> \o V2),
      Entry("hook", PREK_HOOKS[2].repo_url, FALSE, <<"v">> \o V1),
      Entry("hook", OtherHookUrl, FALSE, <<"v">> \o V1),
      Entry("local", <<"local">>, FALSE, <<>>) }

RenderEntry(e) ==
    CASE e.t = "dep" ->
           <<SP, Q>> \o e.name \o (IF e.extras THEN <<"[", "x", "]">> ELSE <<>>)
           \o <<">=">> \o e.ver \o <<Q, ",", NL>>
      [] e.t = "text" ->
           <<"name = ", Q>> \o e.name \o <<Q, NL>>
      [] e.t \in {"uv-version:", "python-version:"} ->
           <<e.t, NL, SP, "description:", SP, "tool version", NL>>
           \o (IF e.extras THEN <<SP, "required:", SP, "false", NL>> ELSE <<>>)
           \o <<SP, "default:", SP, Q>> \o e.ver \o <<Q, NL>>
      [] e.t = "hook" ->
           <<"- repo: ">> \o e.name \o <<NL, SP, "rev:", SP, Q>> \o e.ver
           \o <<Q, NL, SP, "hooks:", NL>>
      [] e.t = "local" ->
           <<"- repo: ">> \o e.name \o <<NL, SP, "hooks:", NL>>

RECURSIVE Render(_)
Render(layout) ==
    IF layout = <<>> THEN <<>> ELSE RenderEntry(Head(layout)) \o Render(Tail(layout))

\* Layouts of at most n entries.
Layouts(entries, n) == UNION { [1..k -> entries] : k \in 0..n }

PYPROJECT_FILES == <<"pyproject.toml", "template/pyproject.toml">>
ACTION_FILES == <<"action.yml", "template/action.yml">>
PRE_COMMIT_CONFIG == ".pre-commit-config.yaml"

Range(f) == { f[x] : x \in DOMAIN f }

NoRun == [ran |-> FALSE, dry |-> FALSE, count |-> 0, writes |-> {}, pre |-> <<>>]

\* Either file may be missing; the first holds any layout, the second one
\* entry at most.
InitFiles(paths, entries) ==
    \E l1 \in Layouts(entries, MaxEntries), l2 \in Layouts(entries, 1),
       present \in SUBSET {1, 2} :
        /\ 1 \notin present => l1 = <<>>
        /\ 2 \notin present => l2 = <<>>
        /\ self_files = paths
        /\ layout0 = [f \in { paths[i] : i \in present } |->
                         IF f = paths[1] THEN l1 ELSE l2]
        /\ fs = [f \in DOMAIN layout0 |-> Render(layout0[f])]

\* The hooks are not running.
PreIdle ==
    /\ pre_pc = "idle"
    /\ pre_status = 0
    /\ uv = [outcome |-> "not run", stdout |-> <<>>]

\* setup_github_repository has not been called.
NoSetup ==
    [called |-> FALSE, dry_run |-> FALSE, protocol |-> "", project_name |-> <<>>,
     failed |-> "", returned |-> FALSE, result |-> FALSE, tree0 |-> <<>>]

\* What setup_github_repository has done on GitHub: nothing.
NoRemote == [created |-> FALSE, pushed |-> FALSE]

PostIdle ==
    /\ post_pc = "idle"
    /\ tree = <<>>
    /\ trace = <<>>
    /\ setup = NoSetup
    /\ remote = NoRemote

\* No updater is running.
UpdIdle ==
    /\ kind = "none" /\ self_files = <<>> /\ fs = <<>> /\ upstream = <<>>
    /\ layout0 = <<>> /\ prev = NoRun /\ last = NoRun

UpdInit ==
    /\ cookiecutter = <<>>
    /\ PreIdle
    /\ PostIdle
    /\ prev = NoRun
    /\ last = NoRun
    /\ \/ /\ kind = "PyprojectTomlUpdater"
          /\ InitFiles(PYPROJECT_FILES, PyEntries)
          /\ upstream \in [Range(PYPI_PACKAGES) -> {None, V2}]
       \/ /\ kind = "ActionYmlUpdater"
          /\ InitFiles(ACTION_FILES, ActionEntries)
          /\ upstream \in [{UV_REPO} -> {None, V2, <<"v">> \o V2}]
       \/ /\ kind = "PreCommitConfigUpdater"
          /\ self_files = <<PRE_COMMIT_CONFIG>>
          /\ \E l \in Layouts(PreCommitEntries, MaxEntries), exists \in BOOLEAN :
                /\ layout0 = IF exists THEN (PRE_COMMIT_CONFIG :> l) ELSE <<>>
                /\ fs = [f \in DOMAIN layout0 |-> Render(layout0[f])]
          /\ upstream \in [{PREK_HOOKS[i].github_repo : i \in 1..Len(PREK_HOOKS)}
                           -> {None, <<"v">> \o V2}]

\* What an update() call leaves behind: the files, and the record of the call.
Returned(r, dry_run) ==
    /\ fs' = r.fs
    /\ prev' = [last EXCEPT !.pre = <<>>, !.writes = {}]
    /\ last' = [ran |-> TRUE, dry |-> dry_run, count |-> r.count,
                writes |-> r.writes, pre |-> fs]
    /\ UNCHANGED <<kind, self_files, upstream, layout0>>
    /\ UNCHANGED <<cookiecutter, preVars, postVars>>

PyprojectTomlUpdater_update ==
    /\ kind = "PyprojectTomlUpdater"
    /\ \E dry_run \in BOOLEAN :
          \E r \in {PyprojectUpdate(PYPI_PACKAGES, self_files, fs, upstream, dry_run)} :
              Returned(r, dry_run)

ActionYmlUpdater_update ==
    /\ kind = "ActionYmlUpdater"
    /\ \E dry_run \in BOOLEAN :
          \E r \in {ActionUpdate(self_files, fs, upstream, dry_run)} :
              Returned(r, dry_run)

PreCommitConfigUpdater_update ==
    /\ kind = "PreCommitConfigUpdater"
    /\ \E dry_run \in BOOLEAN :
          \E r \in {PreCommitUpdate(PREK_HOOKS, self_files[1], fs, upstream, dry_run)} :
              Returned(r, dry_run)

UpdNext ==
    \/ PyprojectTomlUpdater_update
    \/ ActionYmlUpdater_update
    \/ PreCommitConfigUpdater_update

Spec == UpdInit /\ [][UpdNext]_vars

(***************************************************************************)
(* Properties of the updaters                                              *)
(***************************************************************************)
LiveRun == last.ran /\ ~last.dry
DryRun == last.ran /\ last.dry

\* The layout a live run is expected to leave: the version of each dependency
\* entry whose name is exactly a tracked package with a fetched version is that
\* version; nothing else differs.
ExpectedEntry(e, up) ==
    IF e.t = "dep" /\ e.name \in DOMAIN up /\ up[e.name] # None
    THEN [e EXCEPT !.ver = up[e.name]]
    ELSE e

ExpectedLayout(layout, up) == [k \in DOMAIN layout |-> ExpectedEntry(layout[k], up)]

HasEntry(layout, e) == \E k \in DOMAIN layout : layout[k] = e

\* C1: after a live run of PyprojectTomlUpdater every "pkg>=OLD" entry (with or
\* without an extras bracket) of a package whose version was fetched reads
\* "pkg>=FETCHED" in its place, extras kept, and all other text, the entries of
\* packages whose name only begins with or contains pkg included, is as before.
C1_PinnedVersionReplaced ==
    (kind = "PyprojectTomlUpdater" /\ LiveRun) =>
        \A f \in DOMAIN fs : fs[f] = Render(ExpectedLayout(layout0[f], upstream))

C1_Witness ==
    /\ kind = "PyprojectTomlUpdater" /\ LiveRun /\ last.count > 0
    /\ upstream[<<"pytest">>] = V2
    /\ upstream[<<"pytest", "-cov">>] = None
    /\ \E f \in DOMAIN layout0 :
          /\ HasEntry(layout0[f], Entry("dep", <<"pytest">>, TRUE, V1))
          /\ \/ HasEntry(layout0[f], Entry("dep", <<"my-", "pytest">>, FALSE, V1))
             \/ HasEntry(layout0[f], Entry("dep", <<"pytest", "-cov">>, FALSE, V1))
          /\ fs[f] # last.pre[f]

\* C2: a live update() that follows a live update() with the same fetched
\* versions writes no file, leaves every content as it was and returns 0.
C2_SecondLiveRunIsNoOp ==
    (LiveRun /\ prev.ran /\ ~prev.dry) =>
        (last.count = 0 /\ last.writes = {} /\ fs = last.pre)

C2_Witness ==
    /\ LiveRun /\ prev.ran /\ ~prev.dry /\ prev.count > 0
    /\ kind = "PreCommitConfigUpdater"

\* The matches of a package's pattern in a text, leftmost first: the matched
\* text and the version in it.
RECURSIVE PyprojectFindAll(_, _, _)
PyprojectFindAll(s, i, package) ==
    With(PyprojectSearch(s, i, package), LAMBDA j :
        IF j = 0 THEN <<>>
        ELSE With(PyprojectMatchAt(s, j, package), LAMBDA m :
               <<[whole |-> SubSeq(s, j, m.end), version |-> SubSeq(s, m.g1 + 2, m.end - 1)]>>
               \o PyprojectFindAll(s, m.end + 1, package)))

RECURSIVE PreCommitFindAll(_, _, _)
PreCommitFindAll(s, i, repo_url) ==
    With(PreCommitSearch(s, i, repo_url), LAMBDA j :
        IF j = 0 THEN <<>>
        ELSE With(PreCommitMatchAt(s, j, repo_url), LAMBDA m :
               <<[whole |-> SubSeq(s, j, m.end), version |-> SubSeq(s, m.g1 + 1, m.end - 1)]>>
               \o PreCommitFindAll(s, m.end + 1, repo_url)))

PackageFetched(p) == get_pypi_version(upstream, p) # None
HookFetched(h) == get_github_tag(upstream, h.github_repo) # None

\* Entries after a live run, against those before it: untouched when the fetch
\* failed, as many and all at the fetched version when it succeeded.
EntriesSettled(after, before, fetched, version) ==
    IF fetched
    THEN /\ Len(after) = Len(before)
         /\ \A k \in DOMAIN after : after[k].version = version
    ELSE after = before

\* C3: in a live run of PyprojectTomlUpdater or PreCommitConfigUpdater the
\* items whose fetch failed change nothing: the files and the count are those
\* of a run over the list without them, their own entries are as before, and
\* every entry of an item whose fetch succeeded is at the fetched version.
C3_FetchFailureSkipsOnlyThatItem ==
    LiveRun =>
        CASE kind = "PyprojectTomlUpdater" ->
               LET r == PyprojectUpdate(SelectSeq(PYPI_PACKAGES, PackageFetched),
                                        self_files, last.pre, upstream, FALSE)
               IN  /\ fs = r.fs
                   /\ last.count = r.count
                   /\ \A f \in DOMAIN fs : \A p \in Range(PYPI_PACKAGES) :
                         EntriesSettled(PyprojectFindAll(fs[f], 1, p),
                                        PyprojectFindAll(last.pre[f], 1, p),
                                        PackageFetched(p), get_pypi_version(upstream, p))
          [] kind = "PreCommitConfigUpdater" ->
               LET r == PreCommitUpdate(SelectSeq(PREK_HOOKS, HookFetched),
                                        self_files[1], last.pre, upstream, FALSE)
               IN  /\ fs = r.fs
                   /\ last.count = r.count
                   /\ \A f \in DOMAIN fs : \A h \in Range(PREK_HOOKS) :
                         EntriesSettled(PreCommitFindAll(fs[f], 1, h.repo_url),
                                        PreCommitFindAll(last.pre[f], 1, h.repo_url),
                                        HookFetched(h),
                                        <<"v">> \o get_github_tag(upstream, h.github_repo))
          [] OTHER -> TRUE

\* The first package's fetch failed, its entry is in a file, and the second
\* package's entry was updated all the same.
C3_Witness ==
    /\ kind = "PyprojectTomlUpdater" /\ LiveRun /\ last.count > 0
    /\ ~PackageFetched(PYPI_PACKAGES[1])
    /\ PackageFetched(PYPI_PACKAGES[2])
    /\ \E f \in DOMAIN fs :
          /\ PyprojectFindAll(last.pre[f], 1, PYPI_PACKAGES[1]) # <<>>
          /\ PyprojectFindAll(last.pre[f], 1, PYPI_PACKAGES[2]) # <<>>
          /\ fs[f] # last.pre[f]

\* C4: the count a dry run returns is the count the live run that follows it,
\* from the same files and with the same fetched versions, returns.
C4_DryRunCountIsLiveCount ==
    (LiveRun /\ prev.ran /\ prev.dry) => last.count = prev.count

\* C5: a dry run writes nothing: every file is as it was before the call and
\* no file was created or removed.
C5_DryRunWritesNothing ==
    DryRun => (fs = last.pre /\ last.writes = {})

\* A dry run that reported an update a live run would make.
C5_Witness ==
    /\ DryRun /\ last.count > 0
    /\ \E dry_run \in {FALSE} :
          PyprojectUpdate(PYPI_PACKAGES, self_files, fs, upstream, dry_run).fs # fs
    /\ kind = "PyprojectTomlUpdater"

\* The items an updater tracks: packages, the uv repository, hooks.
Items ==
    CASE kind = "PyprojectTomlUpdater" -> Range(PYPI_PACKAGES)
      [] kind = "ActionYmlUpdater" -> {UV_REPO}
      [] kind = "PreCommitConfigUpdater" -> Range(PREK_HOOKS)
      [] OTHER -> {}

\* The version fetched for an item, as it is written into a file; None when
\* the fetch failed.
Fetched(item) ==
    CASE kind = "PyprojectTomlUpdater" -> get_pypi_version(upstream, item)
      [] kind = "ActionYmlUpdater" -> get_github_release(upstream, item)
      [] kind = "PreCommitConfigUpdater" ->
           IF get_github_tag(upstream, item.github_repo) = None THEN None
           ELSE <<"v">> \o get_github_tag(upstream, item.github_repo)

\* Entry e is an occurrence of the pinned-version pattern of item.
Pins(e, item) ==
    CASE kind = "PyprojectTomlUpdater" -> e.t = "dep" /\ e.name = item
      [] kind = "ActionYmlUpdater" ->
           e.t = "uv-version:" /\ e.extras /\ e.ver \in {V1, V2}
      [] kind = "PreCommitConfigUpdater" -> e.t = "hook" /\ e.name = item.repo_url

\* The entry a live run leaves in the place of e.
Updated(e) ==
    IF \E item \in Items : Pins(e, item) /\ Fetched(item) # None
    THEN [e EXCEPT !.ver = Fetched(CHOOSE item \in Items : Pins(e, item))]
    ELSE e

\* The (item, file) pairs a live run can count: the item was fetched, the file
\* exists and holds an occurrence of the item's pattern.
Countable ==
    { pair \in Items \X DOMAIN layout0 :
        /\ Fetched(pair[1]) # None
        /\ \E k \in DOMAIN layout0[pair[2]] : Pins(layout0[pair[2]][k], pair[1]) }

\* C13: in a live run a target file that does not exist is not created, a
\* file without an occurrence of any tracked pattern is not written, neither
\* adds to the count, and every other file is updated all the same.
C13_MissingOrUnmatchedFileIsNoOp ==
    LiveRun =>
        /\ DOMAIN fs = DOMAIN layout0
        /\ last.writes \subseteq DOMAIN layout0
        /\ \A f \in DOMAIN layout0 :
              (\A k \in DOMAIN layout0[f] : \A item \in Items : ~Pins(layout0[f][k], item))
                  => (f \notin last.writes /\ fs[f] = last.pre[f])
        /\ last.count <= Cardinality(Countable)
        /\ \A f \in DOMAIN layout0 :
              fs[f] = Render([k \in DOMAIN layout0[f] |-> Updated(layout0[f][k])])

\* The first file is missing, the second has no occurrence for the first
\* package and one for the second, which was updated.
C13_Witness ==
    /\ kind = "PyprojectTomlUpdater" /\ LiveRun
    /\ self_files[1] \notin DOMAIN fs
    /\ self_files[2] \in DOMAIN fs
    /\ PackageFetched(PYPI_PACKAGES[1])
    /\ PackageFetched(PYPI_PACKAGES[2])
    /\ layout0[self_files[2]] = <<Entry("dep", PYPI_PACKAGES[2], FALSE, V1)>>
    /\ last.count = 1
    /\ last.writes = {self_files[2]}

(***************************************************************************)
(* hooks/pre_gen_project.py                                                *)
(***************************************************************************)
\* The characters of the inputs: a letter, a digit, the hyphen, the
\* underscore and the space.  The inputs are rendered into one-line string
\* literals (lines 8, 17), which hold no newline.
NameChars == {"a", "1", "-", "_", SP}

\* [-a-zA-Z] and [-a-zA-Z0-9]
NAME_FIRST == {"a", "-"}
NAME_REST == {"a", "-", "1"}
\* [_a-zA-Z] and [_a-zA-Z0-9]
SLUG_FIRST == {"a", "_"}
SLUG_REST == {"a", "_", "1"}

\* Index after the longest run of characters of class at or after i.
SkipClass(s, i, class) ==
    IF \E j \in i..Len(s) : s[j] \notin class
    THEN CHOOSE j \in i..Len(s) : s[j] \notin class /\ \A k \in i..(j - 1) : s[k] \in class
    ELSE Len(s) + 1

\* re.match(r"^[FIRST][REST]+$", s): $ matches at the end of the string and
\* before a newline that ends it.
ReMatchName(s, first, rest) ==
    /\ Len(s) >= 1
    /\ s[1] \in first
    /\ With(SkipClass(s, 2, rest), LAMBDA e :
          /\ e > 2
          /\ \/ e = Len(s) + 1
             \/ e = Len(s) /\ s[e] = NL)

\* `needle in haystack` for strings
Contains(haystack, needle) ==
    \E i \in 1..(Len(haystack) + 1) : StartsWithAt(haystack, i, needle)

PythonVersions == { <<"3", ".", "1", "2">>, <<"3", ".", "9">> }

\* What `uv python list` may print.
UvListings ==
    { <<"cpython-", "3", ".", "1", "2", ".", "1", "-linux", NL>>,
      <<"cpython-", "3", ".", "1", "3", ".", "0", "-linux", NL,
        "cpython-", "3", ".", "9", ".", "2", "1", "-linux", NL>>,
      <<>> }

Names == UNION { [1..k -> NameChars] : k \in 0..MaxNameLen }

PreGenInit ==
    /\ UpdIdle
    /\ PostIdle
    /\ cookiecutter \in [project_name : Names, project_slug : Names,
                         python_version : PythonVersions]
    /\ pre_pc = "project_name"
    /\ pre_status = 0
    /\ uv = [outcome |-> "not run", stdout |-> <<>>]

\* sys.exit(status); falling off the end of the script is exit status 0.
PreGenExit(status) ==
    /\ pre_pc' = "exited"
    /\ pre_status' = status

\* Lines 7-14
PreGen_CheckProjectName ==
    /\ pre_pc = "project_name"
    /\ IF ~ReMatchName(cookiecutter.project_name, NAME_FIRST, NAME_REST)
       THEN PreGenExit(1)
       ELSE pre_pc' = "project_slug" /\ UNCHANGED pre_status
    /\ UNCHANGED <<cookiecutter, uv>>
    /\ UNCHANGED <<updVars, postVars>>

\* Lines 16-23
PreGen_CheckProjectSlug ==
    /\ pre_pc = "project_slug"
    /\ IF ~ReMatchName(cookiecutter.project_slug, SLUG_FIRST, SLUG_REST)
       THEN PreGenExit(1)
       ELSE pre_pc' = "python_version" /\ UNCHANGED pre_status
    /\ UNCHANGED <<cookiecutter, uv>>
    /\ UNCHANGED <<updVars, postVars>>

\* Mutant: a uv that is missing or fails cancels the generation.
PythonVersionStatusStrict(run, python_version) ==
    IF run.outcome = "listed" /\ Contains(run.stdout, python_version) THEN 0 ELSE 1

\* Lines 25-53: the exit status after subprocess.run(["uv", "python", "list"],
\* check=True) ended as `run` says: FileNotFoundError ("missing"),
\* CalledProcessError ("failed") or a listing.
PythonVersionStatus(run, python_version) ==
    CASE run.outcome = "listed" ->
           IF ~Contains(run.stdout, python_version) THEN 1 ELSE 0
      [] run.outcome = "failed" -> 0
      [] run.outcome = "missing" -> 0

PreGen_CheckPythonVersion ==
    /\ pre_pc = "python_version"
    /\ \E run \in [outcome : {"missing", "failed"}, stdout : {<<>>}]
                  \cup [outcome : {"listed"}, stdout : UvListings] :
          /\ uv' = run
          /\ PreGenExit(PythonVersionStatus(run, cookiecutter.python_version))
    /\ UNCHANGED cookiecutter
    /\ UNCHANGED <<updVars, postVars>>

PreGenNext ==
    \/ PreGen_CheckProjectName
    \/ PreGen_CheckProjectSlug
    \/ PreGen_CheckPythonVersion

PreGen == PreGenInit /\ [][PreGenNext]_vars

(***************************************************************************)
(* Properties of the pre-generation hook                                   *)
(***************************************************************************)
\* s, a one-line string, matches ^[FIRST][REST]+$
NameMatches(s, first, rest) ==
    /\ Len(s) >= 2
    /\ s[1] \in first
    /\ \A k \in 2..Len(s) : s[k] \in rest

InputsValid ==
    /\ NameMatches(cookiecutter.project_name, NAME_FIRST, NAME_REST)
    /\ NameMatches(cookiecutter.project_slug, SLUG_FIRST, SLUG_REST)

VersionFound ==
    uv.outcome = "listed" /\ Contains(uv.stdout, cookiecutter.python_version)

\* C9 as stated: the hook ends without exit status 1 exactly when both names
\* match and the Python version was found in the listing of `uv python list`.
C9_ProceedsOnlyIfVersionFound ==
    pre_pc = "exited" => (pre_status = 0 <=> (InputsValid /\ VersionFound))

\* C9 amended: the hook ends without exit status 1 exactly when both names
\* match and the Python version was found in the listing or the listing could
\* not be had (uv missing, or `uv python list` failing).
C9_ProceedsUnlessVersionKnownMissing ==
    pre_pc = "exited" =>
        (pre_status = 0 <=>
            (InputsValid /\ (VersionFound \/ uv.outcome \in {"missing", "failed"})))

C9_Witness ==
    /\ pre_pc = "exited" /\ pre_status = 0
    /\ uv.outcome = "missing"

(***************************************************************************)
(* hooks/post_gen_project.py: the project directory and the file helpers   *)
(***************************************************************************)
\* A path is the sequence of its components under PROJECT_DIRECTORY.
SLUG == "my_project"

Dir == [type |-> "dir", text |-> <<>>]
File(text) == [type |-> "file", text |-> text]

IsPrefix(p, q) == Len(p) <= Len(q) /\ SubSeq(q, 1, Len(p)) = p

Exists(t, path) == path \in DOMAIN t
IsFile(t, path) == Exists(t, path) /\ t[path].type = "file"
IsDir(t, path) == Exists(t, path) /\ t[path].type = "dir"

\* The tree without the paths in gone.
Without(t, gone) == [q \in (DOMAIN t) \ gone |-> t[q]]

\* The tree with entry at path.
WithEntry(t, path, entry) ==
    [q \in (DOMAIN t) \cup {path} |-> IF q = path THEN entry ELSE t[q]]

\* The directories above path.
Parents(path) == { SubSeq(path, 1, k) : k \in 1..(Len(path) - 1) }

\* One entry of the trace: a file operation of the hook, or an external
\* process it started; rc is 0 when the operation succeeded.
FileEvent(name, path, target, rc) ==
    [kind |-> "file", name |-> name, path |-> path, target |-> target, rc |-> rc, out |-> <<>>]
CmdEvent(name, rc, out) ==
    [kind |-> "cmd", name |-> name, path |-> <<>>, target |-> <<>>, rc |-> rc, out |-> out]

\* Lines 84-86: shutil.which looks the command up in PATH and starts no
\* process; rc is 0 when it was found.
check_command_exists(command, found) ==
    [kind |-> "which", name |-> command, path |-> <<>>, target |-> <<>>,
     rc |-> IF found THEN 0 ELSE 1, out |-> <<>>]

\* A file operation to run.
Op(name, path, target, text) ==
    [name |-> name, path |-> path, target |-> target, text |-> text]

\* Lines 14-27 and Path.write_text: the tree after the operation, and whether
\* it raised.
ApplyOp(t, op) ==
    CASE op.name = "remove_file" ->
           IF IsFile(t, op.path)
           THEN [tree |-> Without(t, {op.path}), ok |-> TRUE]
           ELSE [tree |-> t, ok |-> FALSE]
      [] op.name = "remove_dir" ->
           IF IsDir(t, op.path)
           THEN [tree |-> Without(t, { q \in DOMAIN t : IsPrefix(op.path, q) }), ok |-> TRUE]
           ELSE [tree |-> t, ok |-> FALSE]
      [] op.name = "move_file" ->
           IF Exists(t, op.path) /\ ~IsDir(t, op.target)
                /\ \A d \in Parents(op.target) : IsDir(t, d)
           THEN [tree |-> WithEntry(Without(t, {op.path}), op.target, t[op.path]), ok |-> TRUE]
           ELSE [tree |-> t, ok |-> FALSE]
      [] op.name = "move_dir" ->
           \* shutil.move: os.rename, and copytree + rmtree when the rename
           \* fails because the parent of the target is missing
           IF IsDir(t, op.path) /\ ~Exists(t, op.target)
           THEN LET moved == { q \in DOMAIN t : IsPrefix(op.path, q) }
                    To(q) == op.target \o SubSeq(q, Len(op.path) + 1, Len(q))
                    dom == ((DOMAIN t) \ moved) \cup { To(q) : q \in moved }
                               \cup Parents(op.target)
                IN  [tree |-> [q \in dom |->
                                  IF \E m \in moved : To(m) = q
                                  THEN t[CHOOSE m \in moved : To(m) = q]
                                  ELSE IF q \in DOMAIN t THEN t[q] ELSE Dir],
                     ok |-> TRUE]
           ELSE [tree |-> t, ok |-> FALSE]
      [] op.name = "read_text" ->
           [tree |-> t, ok |-> IsFile(t, op.path)]
      [] op.name = "write_text" ->
           IF ~IsDir(t, op.path) /\ \A d \in Parents(op.path) : IsDir(t, d)
           THEN [tree |-> WithEntry(t, op.path, File(op.text)), ok |-> TRUE]
           ELSE [tree |-> t, ok |-> FALSE]

\* The operations ops[i..] run in order, until one raises.
RECURSIVE RunOps(_, _, _)
RunOps(st, ops, i) ==
    IF i > Len(ops) \/ ~st.ok THEN st
    ELSE With(ApplyOp(st.tree, ops[i]), LAMBDA r :
            RunOps([tree |-> r.tree,
                    trace |-> Append(st.trace,
                                FileEvent(ops[i].name, ops[i].path, ops[i].target,
                                          IF r.ok THEN 0 ELSE 1)),
                    ok |-> r.ok], ops, i + 1))

(***************************************************************************)
(* update_python_version_in_file, update_github_action_python_version      *)
(***************************************************************************)
\* A text is a sequence of lines, a line a sequence of fields, a version a
\* sequence of characters.
\* \d+\.\d+ matches the whole of v
IsMajorMinor(v) ==
    /\ SkipDigits(v, 1) > 1
    /\ SkipDigits(v, 1) <= Len(v)
    /\ v[SkipDigits(v, 1)] = "."
    /\ SkipDigits(v, SkipDigits(v, 1) + 1) > SkipDigits(v, 1) + 1
    /\ SkipDigits(v, SkipDigits(v, 1) + 1) = Len(v) + 1

\* 3\.\d+ matches the whole of v
IsThreeMinor(v) == IsMajorMinor(v) /\ Len(v) >= 2 /\ v[1] = "3" /\ v[2] = "."

RequiresPython(lo, hi) == <<"requires-python = ", ">=", lo, ",<", hi>>
Classifier(v, comma) == <<"Programming Language :: Python :: ", v, comma>>
Default(v) == <<"default: ", v>>

\* Lines 40-44
SubRequiresPython(line, python_version) ==
    IF Len(line) = 5 /\ line[1] = "requires-python = " /\ line[2] = ">="
         /\ IsMajorMinor(line[3]) /\ line[4] = ",<" /\ IsMajorMinor(line[5])
    THEN RequiresPython(python_version, <<"4", ".", "0">>)
    ELSE line

\* Lines 47-51
IsVersionClassifier(line) ==
    /\ Len(line) = 3 /\ line[1] = "Programming Language :: Python :: "
    /\ IsThreeMinor(line[2])

\* Lines 54-58
IsPython3Classifier(line) ==
    line = Classifier(<<"3">>, ",")

RECURSIVE UpdatePythonVersionLines(_, _, _)
UpdatePythonVersionLines(text, i, python_version) ==
    IF i > Len(text) THEN <<>>
    ELSE (CASE IsVersionClassifier(text[i]) -> <<>>
            [] IsPython3Classifier(text[i]) ->
                 <<text[i], Classifier(python_version, ",")>>
            [] OTHER -> <<SubRequiresPython(text[i], python_version)>>)
         \o UpdatePythonVersionLines(text, i + 1, python_version)

\* Lines 35-60: read_text, three substitutions, write_text
update_python_version_in_file(t, filepath, python_version) ==
    IF IsFile(t, filepath)
    THEN << Op("write_text", filepath, <<>>,
               UpdatePythonVersionLines(t[filepath].text, 1, python_version)) >>
    ELSE << Op("read_text", filepath, <<>>, <<>>) >>

IsDefaultVersion(line) ==
    Len(line) = 2 /\ line[1] = "default: " /\ IsMajorMinor(line[2])

\* Lines 68-73: re.sub(..., count=1)
UpdateDefaultLine(text, python_version) ==
    IF \E i \in 1..Len(text) : IsDefaultVersion(text[i])
    THEN [text EXCEPT ![Min({ i \in 1..Len(text) : IsDefaultVersion(text[i]) })] =
                          Default(python_version)]
    ELSE text

ACTION_FILE == <<".github", "actions", "setup-python-env", "action.yml">>

\* Lines 63-74
update_github_action_python_version(t, python_version) ==
    IF IsFile(t, ACTION_FILE)
    THEN << Op("write_text", ACTION_FILE, <<>>,
               UpdateDefaultLine(t[ACTION_FILE].text, python_version)) >>
    ELSE <<>>

\* Mutant: tox.ini is left where it is.
remove_tox_ini_never(t) == <<>>

\* Lines 77-81
remove_tox_ini(t) ==
    IF Exists(t, <<"tox.ini">>) THEN << Op("remove_file", <<"tox.ini">>, <<>>, <<>>) >> ELSE <<>>

remove_file(filepath) == << Op("remove_file", filepath, <<>>, <<>>) >>
remove_dir(filepath) == << Op("remove_dir", filepath, <<>>, <<>>) >>
move_file(filepath, target) == << Op("move_file", filepath, target, <<>>) >>
move_dir(src, target) == << Op("move_dir", src, target, <<>>) >>

(***************************************************************************)
(* hooks/post_gen_project.py: __main__                                     *)
(***************************************************************************)
YesNo == {"y", "n"}

LICENSES ==
    {"MIT license", "BSD license", "ISC license", "Apache Software License 2.0",
     "GNU General Public License v3", "Not open source"}

LICENSE_FILES ==
    { <<"LICENSE_MIT">>, <<"LICENSE_BSD">>, <<"LICENSE_ISC">>, <<"LICENSE_APACHE">>,
      <<"LICENSE_GPL">> }

\* Lines 493-497
GithubActionsOps(c) ==
    IF c.include_github_actions # "y"
    THEN remove_dir(<<".github">>)
    ELSE IF c.mkdocs # "y" /\ c.publish_to_pypi = "n"
         THEN remove_file(<<".github", "workflows", "on-release-main.yml">>)
         ELSE <<>>

\* Lines 499-501
MkdocsOps(c) ==
    IF c.mkdocs # "y"
    THEN remove_dir(<<"docs">>) \o remove_file(<<"mkdocs.yml">>)
    ELSE <<>>

\* Mutant: the Dockerfile is removed whatever the option says.
DockerfileOpsAlways(c) == remove_file(<<"Dockerfile">>)

\* Lines 503-504
DockerfileOps(c) ==
    IF c.dockerfile # "y" THEN remove_file(<<"Dockerfile">>) ELSE <<>>

\* Mutant: the codecov workflow is removed without asking whether .github
\* was kept.
CodecovOpsUnguarded(c) ==
    IF c.codecov # "y"
    THEN remove_file(<<"codecov.yaml">>)
         \o remove_file(<<".github", "workflows", "validate-codecov-config.yml">>)
    ELSE <<>>

\* Lines 506-509
CodecovOps(c) ==
    IF c.codecov # "y"
    THEN remove_file(<<"codecov.yaml">>)
         \o (IF c.include_github_actions = "y"
             THEN remove_file(<<".github", "workflows", "validate-codecov-config.yml">>)
             ELSE <<>>)
    ELSE <<>>

\* Lines 511-512
DevcontainerOps(c) ==
    IF c.devcontainer # "y" THEN remove_dir(<<".devcontainer">>) ELSE <<>>

\* Mutant: the MIT branch leaves LICENSE_GPL behind.
LicenseOpsKeepGpl(c) ==
    (IF c.open_source_license = "MIT license"
     THEN move_file(<<"LICENSE_MIT">>, <<"LICENSE">>) \o remove_file(<<"LICENSE_BSD">>)
          \o remove_file(<<"LICENSE_ISC">>) \o remove_file(<<"LICENSE_APACHE">>)
     ELSE <<>>)
    \o
    (IF c.open_source_license = "BSD license"
     THEN move_file(<<"LICENSE_BSD">>, <<"LICENSE">>) \o remove_file(<<"LICENSE_MIT">>)
          \o remove_file(<<"LICENSE_ISC">>) \o remove_file(<<"LICENSE_APACHE">>)
          \o remove_file(<<"LICENSE_GPL">>)
     ELSE <<>>)
    \o
    (IF c.open_source_license = "ISC license"
     THEN move_file(<<"LICENSE_ISC">>, <<"LICENSE">>) \o remove_file(<<"LICENSE_MIT">>)
          \o remove_file(<<"LICENSE_BSD">>) \o remove_file(<<"LICENSE_APACHE">>)
          \o remove_file(<<"LICENSE_GPL">>)
     ELSE <<>>)
    \o
    (IF c.open_source_license = "Apache Software License 2.0"
     THEN move_file(<<"LICENSE_APACHE">>, <<"LICENSE">>) \o remove_file(<<"LICENSE_MIT">>)
          \o remove_file(<<"LICENSE_BSD">>) \o remove_file(<<"LICENSE_ISC">>)
          \o remove_file(<<"LICENSE_GPL">>)
     ELSE <<>>)
    \o
    (IF c.open_source_license = "GNU General Public License v3"
     THEN move_file(<<"LICENSE_GPL">>, <<"LICENSE">>) \o remove_file(<<"LICENSE_MIT">>)
          \o remove_file(<<"LICENSE_BSD">>) \o remove_file(<<"LICENSE_ISC">>)
          \o remove_file(<<"LICENSE_APACHE">>)
     ELSE <<>>)
    \o
    (IF c.open_source_license = "Not open source"
     THEN remove_file(<<"LICENSE_GPL">>) \o remove_file(<<"LICENSE_MIT">>)
          \o remove_file(<<"LICENSE_BSD">>) \o remove_file(<<"LICENSE_ISC">>)
          \o remove_file(<<"LICENSE_APACHE">>)
     ELSE <<>>)

\* Lines 514-554
LicenseOps(c) ==
    (IF c.open_source_license = "MIT license"
     THEN move_file(<<"LICENSE_MIT">>, <<"LICENSE">>) \o remove_file(<<"LICENSE_BSD">>)
          \o remove_file(<<"LICENSE_ISC">>) \o remove_file(<<"LICENSE_APACHE">>)
          \o remove_file(<<"LICENSE_GPL">>)
     ELSE <<>>)
    \o
    (IF c.open_source_license = "BSD license"
     THEN move_file(<<"LICENSE_BSD">>, <<"LICENSE">>) \o remove_file(<<"LICENSE_MIT">>)
          \o remove_file(<<"LICENSE_ISC">>) \o remove_file(<<"LICENSE_APACHE">>)
          \o remove_file(<<"LICENSE_GPL">>)
     ELSE <<>>)
    \o
    (IF c.open_source_license = "ISC license"
     THEN move_file(<<"LICENSE_ISC">>, <<"LICENSE">>) \o remove_file(<<"LICENSE_MIT">>)
          \o remove_file(<<"LICENSE_BSD">>) \o remove_file(<<"LICENSE_APACHE">>)
          \o remove_file(<<"LICENSE_GPL">>)
     ELSE <<>>)
    \o
    (IF c.open_source_license = "Apache Software License 2.0"
     THEN move_file(<<"LICENSE_APACHE">>, <<"LICENSE">>) \o remove_file(<<"LICENSE_MIT">>)
          \o remove_file(<<"LICENSE_BSD">>) \o remove_file(<<"LICENSE_ISC">>)
          \o remove_file(<<"LICENSE_GPL">>)
     ELSE <<>>)
    \o
    (IF c.open_source_license = "GNU General Public License v3"
     THEN move_file(<<"LICENSE_GPL">>, <<"LICENSE">>) \o remove_file(<<"LICENSE_MIT">>)
          \o remove_file(<<"LICENSE_BSD">>) \o remove_file(<<"LICENSE_ISC">>)
          \o remove_file(<<"LICENSE_APACHE">>)
     ELSE <<>>)
    \o
    (IF c.open_source_license = "Not open source"
     THEN remove_file(<<"LICENSE_GPL">>) \o remove_file(<<"LICENSE_MIT">>)
          \o remove_file(<<"LICENSE_BSD">>) \o remove_file(<<"LICENSE_ISC">>)
          \o remove_file(<<"LICENSE_APACHE">>)
     ELSE <<>>)

\* Lines 556-559
LayoutOps(c, t) ==
    IF c.layout = "src"
    THEN (IF IsDir(t, <<"src">>) THEN remove_dir(<<"src">>) ELSE <<>>)
         \o move_dir(<<c.project_slug>>, <<"src", c.project_slug>>)
    ELSE <<>>

\* Mutant: the setup is run whatever the option says.
SetupRequestedAlways(c) == TRUE

\* Line 562
SetupRequested(c) == c.automate_github_setup = "y"

\* The python version the hook is rendered with.
PYTHON_VERSION == <<"3", ".", "1", "2">>

\* The files the template renders, before the hook runs.
PyprojectText ==
    << <<"[project]">>,
       RequiresPython(<<"3", ".", "1", "0">>, <<"4", ".", "0">>),
       Classifier(<<"3">>, ","),
       Classifier(<<"3", ".", "1", "0">>, ","),
       Classifier(<<"3", ".", "1", "1">>, ","),
       <<"]">> >>

ActionText ==
    << <<"python-version:">>, Default(<<"3", ".", "1", "1">>),
       <<"uv-version:">>, Default(<<"0", ".", "1", "0">>) >>

RenderedDirs ==
    { <<".devcontainer">>, <<".github">>, <<".github", "actions">>,
      <<".github", "actions", "setup-python-env">>, <<".github", "workflows">>,
      <<"docs">>, <<SLUG>> }

RenderedFiles ==
    { <<".devcontainer", "devcontainer.json">>,
      <<".github", "workflows", "main.yml">>,
      <<".github", "workflows", "on-release-main.yml">>,
      <<".github", "workflows", "validate-codecov-config.yml">>,
      <<"docs", "index.md">>, <<"mkdocs.yml">>, <<"Dockerfile">>, <<"codecov.yaml">>,
      <<"Makefile">>, <<"README.md">>, <<SLUG, "__init__.py">> } \cup LICENSE_FILES

\* What a rendered file holds: its own text, told apart by its path.
Rendered(path) ==
    CASE path = <<"pyproject.toml">> -> File(PyprojectText)
      [] path = ACTION_FILE -> File(ActionText)
      [] path \in RenderedDirs -> Dir
      [] OTHER -> File(<<path>>)

\* The rendered project, with the paths in extra (directories, or tox.ini).
RenderedTree(extra) ==
    [path \in RenderedDirs \cup RenderedFiles \cup {<<"pyproject.toml">>, ACTION_FILE} \cup extra |->
        IF path \in extra /\ path # <<"tox.ini">> THEN Dir ELSE Rendered(path)]

Contexts ==
    [include_github_actions : YesNo, mkdocs : YesNo, publish_to_pypi : YesNo,
     dockerfile : YesNo, codecov : YesNo, devcontainer : YesNo,
     open_source_license : LICENSES, layout : {"flat", "src"},
     automate_github_setup : YesNo, project_slug : {SLUG},
     python_version : {PYTHON_VERSION}]

PostGenInit ==
    /\ UpdIdle
    /\ PreIdle
    /\ cookiecutter \in Contexts
    /\ post_pc = "python_version"
    /\ tree \in { RenderedTree(extra \cup git) :
                    extra \in {{}, {<<"tox.ini">>, <<"src">>}}, git \in {{}, {<<".git">>}} }
    /\ trace = <<>>
    /\ setup = NoSetup
    /\ remote = NoRemote

\* The statements ops, then the statement at next; an uncaught exception ends
\* the hook.
RunBlock(ops, next) ==
    \E r \in { RunOps([tree |-> tree, trace |-> trace, ok |-> TRUE], ops, 1) } :
        /\ tree' = r.tree
        /\ trace' = r.trace
        /\ post_pc' = IF r.ok THEN next ELSE "crashed"
        /\ UNCHANGED <<cookiecutter, setup, remote>>
        /\ UNCHANGED <<updVars, preVars>>

\* Lines 486-488
PostGen_UpdatePythonVersion ==
    /\ post_pc = "python_version"
    /\ \E r \in { RunOps([tree |-> tree, trace |-> trace, ok |-> TRUE],
                         update_python_version_in_file(tree, <<"pyproject.toml">>,
                                                       cookiecutter.python_version), 1) } :
          IF r.ok
          THEN \E q \in { RunOps(r, update_github_action_python_version(
                                        r.tree, cookiecutter.python_version), 1) } :
                  /\ tree' = q.tree
                  /\ trace' = q.trace
                  /\ post_pc' = IF q.ok THEN "tox_ini" ELSE "crashed"
          ELSE /\ tree' = r.tree
               /\ trace' = r.trace
               /\ post_pc' = "crashed"
    /\ UNCHANGED <<cookiecutter, setup, remote>>
    /\ UNCHANGED <<updVars, preVars>>

\* Line 491
PostGen_RemoveToxIni ==
    /\ post_pc = "tox_ini"
    /\ RunBlock(remove_tox_ini(tree), "github_actions")

PostGen_GithubActions ==
    /\ post_pc = "github_actions"
    /\ RunBlock(GithubActionsOps(cookiecutter), "mkdocs")

PostGen_Mkdocs ==
    /\ post_pc = "mkdocs"
    /\ RunBlock(MkdocsOps(cookiecutter), "dockerfile")

PostGen_Dockerfile ==
    /\ post_pc = "dockerfile"
    /\ RunBlock(DockerfileOps(cookiecutter), "codecov")

PostGen_Codecov ==
    /\ post_pc = "codecov"
    /\ RunBlock(CodecovOps(cookiecutter), "devcontainer")

PostGen_Devcontainer ==
    /\ post_pc = "devcontainer"
    /\ RunBlock(DevcontainerOps(cookiecutter), "license")

PostGen_License ==
    /\ post_pc = "license"
    /\ RunBlock(LicenseOps(cookiecutter), "layout")

PostGen_Layout ==
    /\ post_pc = "layout"
    /\ RunBlock(LayoutOps(cookiecutter, tree), "setup")

(***************************************************************************)
(* hooks/post_gen_project.py: setup_github_repository                      *)
(***************************************************************************)
MAX_REPOSITORY_NAME == 100

\* [a-zA-Z0-9._-]
REPO_CHARS == {"a", "1", ".", "_", "-"}

\* Mutant: every name is taken for valid.
validate_repository_name_any(name) == TRUE

\* Lines 228-254
validate_repository_name(name) ==
    /\ name # <<>>
    /\ ~(Len(name) > MAX_REPOSITORY_NAME)
    /\ ~(name[1] = ".")
    /\ With(SkipClass(name, 1, REPO_CHARS), LAMBDA e :
          \/ e = Len(name) + 1
          \/ e = Len(name) /\ name[e] = NL)

\* The project names the hook can be rendered with: the pre-generation hook
\* let them pass.
ProjectNames ==
    { name \in { <<"a", "-", "1">>, <<".", "a">>, <<>>,
                 [i \in 1..(MAX_REPOSITORY_NAME + 1) |-> "a"] } :
        ReMatchName(name, NAME_FIRST, NAME_REST) }

\* str.lower() on the words that occur in what the commands print; a word
\* without upper-case letters is its own lower case.
LowerWord(w) ==
    CASE w = "Hi" -> "hi"
      [] w = "You've" -> "you've"
      [] w = "Permission" -> "permission"
      [] w = "Name" -> "name"
      [] w = "Repository" -> "repository"
      [] w = "Already" -> "already"
      [] w = "Exists" -> "exists"
      [] w = "HTTP" -> "http"
      [] OTHER -> w

\* result.stderr.lower(), the text a sequence of words
Lower(text) == [i \in DOMAIN text |-> LowerWord(text[i])]

\* What `ssh -T git@github.com` may print on stderr.
SSH_GREETING == <<"Hi", "user!", "You've", "successfully", "authenticated">>
SSH_DENIED == <<"Permission", "denied">>

\* What `gh repo create` may print on stderr when it fails.
GH_ERRORS ==
    { <<"Name", "already", "exists", "on", "this", "account">>,
      <<"Repository", "Already", "Exists">>,
      <<"exists", "already">>,
      <<"HTTP", "401">> }

\* Mutant: the message is looked for in stderr as printed.
AlreadyExistsExact(stderr) == Contains(stderr, <<"already", "exists">>)

\* Line 376: "already exists" in result.stderr.lower()
AlreadyExists(stderr) == Contains(Lower(stderr), <<"already", "exists">>)

ExitCodes == {0, 1}

\* Mutant: a non-zero exit code is never raised.
RunCommandUnchecked(name, check, dry_run, rc, out) ==
    [events |-> IF dry_run THEN <<>> ELSE <<CmdEvent(name, rc, out)>>,
     raised |-> FALSE]

\* Mutant: dry_run is not looked at, the command is always run.
RunCommandAlways(name, check, dry_run, rc, out) ==
    [events |-> <<CmdEvent(name, rc, out)>>,
     raised |-> check /\ rc # 0]

\* Lines 89-134: the processes run_command starts, and whether it raises
\* CalledProcessError.
RunCommand(name, check, dry_run, rc, out) ==
    [events |-> IF dry_run THEN <<>> ELSE <<CmdEvent(name, rc, out)>>,
     raised |-> ~dry_run /\ check /\ rc # 0]

\* `return result` from setup_github_repository, back in __main__.
SetupReturn(result, failed) ==
    /\ setup' = [setup EXCEPT !.returned = TRUE, !.result = result, !.failed = failed]
    /\ post_pc' = "done"

\* Mutant: a step that raises deletes the repository it had created.
SetupStepRollback(r, next) ==
    /\ trace' = trace \o r.events
                \o (IF r.raised THEN <<CmdEvent("gh repo delete", 0, <<>>)>> ELSE <<>>)
    /\ IF r.raised
       THEN SetupReturn(FALSE, "")
       ELSE post_pc' = next /\ UNCHANGED setup

\* A step of the command sequence that raises, or goes on to next.
SetupStep(r, next) ==
    /\ trace' = trace \o r.events
    /\ IF r.raised
       THEN SetupReturn(FALSE, "")
       ELSE post_pc' = next /\ UNCHANGED setup

\* Lines 561-564 and 266-278.  dry_run_github_setup is read here;
\* project_name and git_remote_protocol where the function first uses them.
PostGen_Setup ==
    /\ post_pc = "setup"
    /\ IF SetupRequested(cookiecutter)
       THEN \E dry_run \in BOOLEAN :
               /\ setup' = [setup EXCEPT !.called = TRUE, !.dry_run = dry_run, !.tree0 = tree]
               /\ post_pc' = IF dry_run THEN "git_init" ELSE "validate_name"
       ELSE /\ post_pc' = "done"
            /\ UNCHANGED setup
    /\ UNCHANGED <<cookiecutter, tree, trace, remote>>
    /\ UNCHANGED <<updVars, preVars>>

\* Lines 280-285
Setup_ValidateName ==
    /\ post_pc = "validate_name"
    /\ \E name \in ProjectNames :
          IF ~validate_repository_name(name)
          THEN /\ setup' = [setup EXCEPT !.project_name = name, !.returned = TRUE,
                                         !.result = FALSE, !.failed = "repository name"]
               /\ post_pc' = "done"
          ELSE /\ setup' = [setup EXCEPT !.project_name = name]
               /\ post_pc' = "git_dir"
    /\ UNCHANGED <<cookiecutter, tree, trace, remote>>
    /\ UNCHANGED <<updVars, preVars>>

\* Lines 288-292
Setup_CheckGitDir ==
    /\ post_pc = "git_dir"
    /\ IF Exists(tree, <<".git">>)
       THEN SetupReturn(FALSE, ".git")
       ELSE post_pc' = "which_gh" /\ UNCHANGED setup
    /\ UNCHANGED <<cookiecutter, tree, trace, remote>>
    /\ UNCHANGED <<updVars, preVars>>

\* Lines 294-298 and 84-86
Setup_CheckGhInstalled ==
    /\ post_pc = "which_gh"
    /\ \E found \in BOOLEAN :
          /\ trace' = Append(trace, check_command_exists("gh", found))
          /\ IF ~found
             THEN SetupReturn(FALSE, "gh")
             ELSE post_pc' = "which_git" /\ UNCHANGED setup
    /\ UNCHANGED <<cookiecutter, tree, remote>>
    /\ UNCHANGED <<updVars, preVars>>

\* Lines 300-303
Setup_CheckGitInstalled ==
    /\ post_pc = "which_git"
    /\ \E found \in BOOLEAN :
          /\ trace' = Append(trace, check_command_exists("git", found))
          /\ IF ~found
             THEN SetupReturn(FALSE, "git")
             ELSE post_pc' = "gh_auth" /\ UNCHANGED setup
    /\ UNCHANGED <<cookiecutter, tree, remote>>
    /\ UNCHANGED <<updVars, preVars>>

\* Lines 305-309 and 137-148
Setup_CheckGhAuth ==
    /\ post_pc = "gh_auth"
    /\ \E rc \in ExitCodes :
          /\ trace' = Append(trace, CmdEvent("gh auth status", rc, <<>>))
          /\ IF ~(rc = 0)
             THEN SetupReturn(FALSE, "gh auth")
             ELSE post_pc' = "git_config" /\ UNCHANGED setup
    /\ UNCHANGED <<cookiecutter, tree, remote>>
    /\ UNCHANGED <<updVars, preVars>>

\* Lines 312-318 and 151-184: both commands are run, then both are judged;
\* out is what the command printed, stripped.
Setup_CheckGitConfig ==
    /\ post_pc = "git_config"
    /\ \E name_rc \in ExitCodes, email_rc \in ExitCodes,
          name_out \in {<<>>, <<"A", "U", "Thor">>},
          email_out \in {<<>>, <<"author@example.com">>} :
          /\ name_rc # 0 => name_out = <<>>
          /\ email_rc # 0 => email_out = <<>>
          /\ trace' = trace \o << CmdEvent("git config user.name", name_rc, name_out),
                                  CmdEvent("git config user.email", email_rc, email_out) >>
          /\ IF (name_rc # 0 \/ name_out = <<>>) \/ (email_rc # 0 \/ email_out = <<>>)
             THEN SetupReturn(FALSE, "git config")
             ELSE post_pc' = "connectivity" /\ UNCHANGED setup
    /\ UNCHANGED <<cookiecutter, tree, remote>>
    /\ UNCHANGED <<updVars, preVars>>

\* Mutant: the verdict is always that GitHub can be reached.
check_git_connectivity_lenient(protocol, rc, out) ==
    IF protocol = "ssh"
    THEN [event |-> CmdEvent("ssh -T git@github.com", rc, out), can_connect |-> TRUE]
    ELSE [event |-> CmdEvent("git config --get credential.helper", rc, out),
          can_connect |-> TRUE]

\* Lines 187-225: the probe, what it printed, and the verdict
check_git_connectivity(protocol, rc, out) ==
    IF protocol = "ssh"
    THEN [event |-> CmdEvent("ssh -T git@github.com", rc, out),
          can_connect |-> Contains(Lower(out), <<"successfully", "authenticated">>)]
    ELSE [event |-> CmdEvent("git config --get credential.helper", rc, out),
          can_connect |-> rc = 0 /\ out # <<>>]

\* Lines 321-330
Setup_CheckConnectivity ==
    /\ post_pc = "connectivity"
    /\ \E protocol \in {"ssh", "https"}, rc \in ExitCodes :
       \E out \in IF protocol = "ssh"
                  THEN (IF rc = 1 THEN {SSH_GREETING, SSH_DENIED} ELSE {SSH_DENIED})
                  ELSE (IF rc = 0 THEN {<<"store">>} ELSE {<<>>}) :
       \E r \in { check_git_connectivity(protocol, rc, out) } :
          /\ trace' = Append(trace, r.event)
          /\ IF ~r.can_connect /\ protocol = "ssh"
             THEN /\ setup' = [setup EXCEPT !.protocol = protocol, !.returned = TRUE,
                                            !.result = FALSE, !.failed = "connectivity"]
                  /\ post_pc' = "done"
             ELSE /\ setup' = [setup EXCEPT !.protocol = protocol]
                  /\ post_pc' = "git_init"
    /\ UNCHANGED <<cookiecutter, tree, remote>>
    /\ UNCHANGED <<updVars, preVars>>

\* Lines 342-346
Setup_GitInit ==
    /\ post_pc = "git_init"
    /\ \E rc \in ExitCodes :
       \E r \in { RunCommand("git init -b main", TRUE, setup.dry_run, rc, <<>>) } :
          /\ SetupStep(r, "make_install")
          /\ tree' = IF ~setup.dry_run /\ rc = 0
                     THEN WithEntry(tree, <<".git">>, Dir) ELSE tree
    /\ UNCHANGED <<cookiecutter, remote>>
    /\ UNCHANGED <<updVars, preVars>>

\* Lines 349-353; a missing make raises FileNotFoundError out of
\* subprocess.run, caught at line 478
Setup_MakeInstall ==
    /\ post_pc = "make_install"
    /\ \E found \in BOOLEAN, rc \in ExitCodes :
          IF ~setup.dry_run /\ ~found
          THEN SetupReturn(FALSE, "") /\ UNCHANGED trace
          ELSE \E r \in { RunCommand("make install", TRUE, setup.dry_run, rc, <<>>) } :
                  SetupStep(r, "gh_repo_create")
    /\ UNCHANGED <<cookiecutter, tree, remote>>
    /\ UNCHANGED <<updVars, preVars>>

\* Lines 356-385
Setup_GhRepoCreate ==
    /\ post_pc = "gh_repo_create"
    /\ \E rc \in ExitCodes :
       \E out \in IF rc = 0 THEN {<<>>} ELSE GH_ERRORS :
       \E r \in { RunCommand("gh repo create", FALSE, setup.dry_run, rc, out) } :
          /\ trace' = trace \o r.events
          /\ IF ~setup.dry_run /\ rc # 0
             THEN IF AlreadyExists(out)
                  THEN post_pc' = "git_add" /\ UNCHANGED setup
                  ELSE SetupReturn(FALSE, "")
             ELSE post_pc' = "git_add" /\ UNCHANGED setup
          /\ remote' = IF ~setup.dry_run /\ rc = 0
                       THEN [remote EXCEPT !.created = TRUE] ELSE remote
    /\ UNCHANGED <<cookiecutter, tree>>
    /\ UNCHANGED <<updVars, preVars>>

\* Lines 388-392
Setup_GitAdd ==
    /\ post_pc = "git_add"
    /\ \E rc \in ExitCodes :
       \E r \in { RunCommand("git add .", TRUE, setup.dry_run, rc, <<>>) } :
          SetupStep(r, "git_commit")
    /\ UNCHANGED <<cookiecutter, tree, remote>>
    /\ UNCHANGED <<updVars, preVars>>

\* Lines 395-403: check=False, and the result is not looked at
Setup_GitCommit ==
    /\ post_pc = "git_commit"
    /\ \E rc \in ExitCodes :
       \E r \in { RunCommand("git commit -m init commit", FALSE, setup.dry_run, rc, <<>>) } :
          SetupStep(r, "git_status")
    /\ UNCHANGED <<cookiecutter, tree, remote>>
    /\ UNCHANGED <<updVars, preVars>>

\* Mutant: files changed by the pre-commit hooks are not committed.
Setup_GitStatusNoRecommit ==
    /\ post_pc = "git_status"
    /\ IF setup.dry_run
       THEN post_pc' = "remote_get_url" /\ UNCHANGED <<trace, setup>>
       ELSE \E rc \in ExitCodes :
            \E out \in IF rc = 0 THEN {<<>>, <<"M", "README.md">>} ELSE {<<>>} :
               /\ trace' = Append(trace, CmdEvent("git status --porcelain", rc, out))
               /\ IF rc # 0
                  THEN SetupReturn(FALSE, "")
                  ELSE post_pc' = "remote_get_url" /\ UNCHANGED setup
    /\ UNCHANGED <<cookiecutter, tree, remote>>
    /\ UNCHANGED <<updVars, preVars>>

\* Lines 406-419: subprocess.run(..., check=True)
Setup_GitStatus ==
    /\ post_pc = "git_status"
    /\ IF setup.dry_run
       THEN post_pc' = "remote_get_url" /\ UNCHANGED <<trace, setup>>
       ELSE \E rc \in ExitCodes :
            \E out \in IF rc = 0 THEN {<<>>, <<"M", "README.md">>} ELSE {<<>>} :
               /\ trace' = Append(trace, CmdEvent("git status --porcelain", rc, out))
               /\ IF rc # 0
                  THEN SetupReturn(FALSE, "")
                  ELSE /\ post_pc' = IF out # <<>> THEN "git_add_again" ELSE "remote_get_url"
                       /\ UNCHANGED setup
    /\ UNCHANGED <<cookiecutter, tree, remote>>
    /\ UNCHANGED <<updVars, preVars>>

\* Lines 421-424
Setup_GitAddAgain ==
    /\ post_pc = "git_add_again"
    /\ \E rc \in ExitCodes :
       \E r \in { RunCommand("git add .", TRUE, FALSE, rc, <<>>) } :
          SetupStep(r, "git_commit_again")
    /\ UNCHANGED <<cookiecutter, tree, remote>>
    /\ UNCHANGED <<updVars, preVars>>

\* Lines 425-428
Setup_GitCommitAgain ==
    /\ post_pc = "git_commit_again"
    /\ \E rc \in ExitCodes :
       \E r \in { RunCommand("git commit -m init commit", TRUE, FALSE, rc, <<>>) } :
          SetupStep(r, "remote_get_url")
    /\ UNCHANGED <<cookiecutter, tree, remote>>
    /\ UNCHANGED <<updVars, preVars>>

\* Lines 437-453: git remote get-url origin, then git remote add origin
Setup_RemoteGetUrl ==
    /\ post_pc = "remote_get_url"
    /\ IF setup.dry_run
       THEN post_pc' = "git_push" /\ UNCHANGED trace
       ELSE \E rc \in ExitCodes :
               /\ trace' = Append(trace, CmdEvent("git remote get-url origin", rc, <<>>))
               /\ post_pc' = IF rc # 0 THEN "remote_add" ELSE "git_push"
    /\ UNCHANGED <<cookiecutter, tree, setup, remote>>
    /\ UNCHANGED <<updVars, preVars>>

\* Lines 449-453
Setup_RemoteAdd ==
    /\ post_pc = "remote_add"
    /\ \E rc \in ExitCodes :
       \E r \in { RunCommand("git remote add origin", TRUE, FALSE, rc, <<>>) } :
          SetupStep(r, "git_push")
    /\ UNCHANGED <<cookiecutter, tree, remote>>
    /\ UNCHANGED <<updVars, preVars>>

\* Lines 455-472
Setup_GitPush ==
    /\ post_pc = "git_push"
    /\ \E rc \in ExitCodes :
       \E r \in { RunCommand("git push -u origin main", TRUE, setup.dry_run, rc, <<>>) } :
          /\ trace' = trace \o r.events
          /\ SetupReturn(~r.raised, "")
          /\ remote' = IF ~setup.dry_run /\ rc = 0
                       THEN [remote EXCEPT !.pushed = TRUE] ELSE remote
    /\ UNCHANGED <<cookiecutter, tree>>
    /\ UNCHANGED <<updVars, preVars>>

PostGenNext ==
    \/ PostGen_UpdatePythonVersion
    \/ PostGen_RemoveToxIni
    \/ PostGen_GithubActions
    \/ PostGen_Mkdocs
    \/ PostGen_Dockerfile
    \/ PostGen_Codecov
    \/ PostGen_Devcontainer
    \/ PostGen_License
    \/ PostGen_Layout
    \/ PostGen_Setup
    \/ Setup_ValidateName
    \/ Setup_CheckGitDir
    \/ Setup_CheckGhInstalled
    \/ Setup_CheckGitInstalled
    \/ Setup_CheckGhAuth
    \/ Setup_CheckGitConfig
    \/ Setup_CheckConnectivity
    \/ Setup_GitInit
    \/ Setup_MakeInstall
    \/ Setup_GhRepoCreate
    \/ Setup_GitAdd
    \/ Setup_GitCommit
    \/ Setup_GitStatus
    \/ Setup_GitAddAgain
    \/ Setup_GitCommitAgain
    \/ Setup_RemoteGetUrl
    \/ Setup_RemoteAdd
    \/ Setup_GitPush

PostGen == PostGenInit /\ [][PostGenNext]_vars

(***************************************************************************)
(* Properties of the post-generation hook                                  *)
(***************************************************************************)
IsCmd(e) == e.kind = "cmd"
IsFileOp(e) == e.kind = "file"

\* The statements after the licence selection.
AfterLicense ==
    post_pc \notin {"idle", "python_version", "tox_ini", "github_actions", "mkdocs",
                    "dockerfile", "codecov", "devcontainer", "license", "crashed"}

LicenseSource(license) ==
    CASE license = "MIT license" -> <<"LICENSE_MIT">>
      [] license = "BSD license" -> <<"LICENSE_BSD">>
      [] license = "ISC license" -> <<"LICENSE_ISC">>
      [] license = "Apache Software License 2.0" -> <<"LICENSE_APACHE">>
      [] license = "GNU General Public License v3" -> <<"LICENSE_GPL">>

\* C6: from a project holding the five LICENSE_* files, the licence selection
\* does not fail and leaves no LICENSE_* file; with an open-source licence it
\* leaves LICENSE holding what the chosen LICENSE_* file held, with "Not open
\* source" it leaves no LICENSE.
C6_LicenseSelection ==
    /\ post_pc = "license" =>
          /\ \A f \in LICENSE_FILES : IsFile(tree, f) /\ tree[f] = Rendered(f)
          /\ ~Exists(tree, <<"LICENSE">>)
    /\ post_pc = "crashed" =>
          trace[Len(trace)].path \notin LICENSE_FILES
    /\ AfterLicense =>
          /\ \A f \in LICENSE_FILES : ~Exists(tree, f)
          /\ IF cookiecutter.open_source_license = "Not open source"
             THEN ~Exists(tree, <<"LICENSE">>)
             ELSE /\ IsFile(tree, <<"LICENSE">>)
                  /\ tree[<<"LICENSE">>] =
                        Rendered(LicenseSource(cookiecutter.open_source_license))

C6_Witness ==
    /\ post_pc = "done"
    /\ cookiecutter.open_source_license = "MIT license"
    /\ IsFile(tree, <<"LICENSE">>)
    /\ \E i \in DOMAIN trace :
          trace[i].name = "move_file" /\ trace[i].path = <<"LICENSE_MIT">> /\ trace[i].rc = 0

\* The commands of the setup sequence that C8 lists.
SETUP_COMMANDS ==
    {"git init -b main", "make install", "gh repo create", "git add .",
     "git commit -m init commit", "git remote add origin", "git push -u origin main"}

\* name is not a valid repository name
NameInvalid(name) ==
    \/ name = <<>>
    \/ Len(name) > MAX_REPOSITORY_NAME
    \/ name[1] = "."
    \/ \E k \in DOMAIN name : name[k] \notin REPO_CHARS

\* A non-dry setup has returned because a prerequisite did not hold.
PrerequisiteFailed ==
    /\ setup.called /\ ~setup.dry_run /\ setup.returned
    /\ \/ setup.failed \in {"repository name", ".git", "gh", "git", "gh auth",
                            "git config", "connectivity"}
       \/ NameInvalid(setup.project_name)
       \/ Exists(setup.tree0, <<".git">>)

\* C7 as stated: when a prerequisite check fails, the hook has deleted,
\* renamed or rewritten nothing.
C7_AbortBeforeAnyFileMutation ==
    PrerequisiteFailed => \A i \in DOMAIN trace : ~IsFileOp(trace[i])

\* C7 amended: when a prerequisite check fails, setup returns False having
\* started no command of its sequence and having changed neither the project
\* nor GitHub; the hook's own rewrites, deletions and renames were done
\* before the checks began, and stay.
C7_AbortBeforeSetupMutation ==
    PrerequisiteFailed =>
        /\ ~setup.result
        /\ \A i \in DOMAIN trace :
              IsCmd(trace[i]) => trace[i].name \notin SETUP_COMMANDS
        /\ tree = setup.tree0
        /\ remote = NoRemote
        /\ trace # <<>>
        /\ trace[1] = FileEvent("write_text", <<"pyproject.toml">>, <<>>, 0)
        /\ tree[<<"pyproject.toml">>] # Rendered(<<"pyproject.toml">>)

C7_Witness ==
    /\ PrerequisiteFailed
    /\ setup.failed = "gh auth"
    /\ \E i \in DOMAIN trace : trace[i].name = "remove_dir"

\* The text has the words "already exists" in it, in any case.
SaysAlreadyExists(text) ==
    \E k \in 1..(Len(text) - 1) :
        LowerWord(text[k]) = "already" /\ LowerWord(text[k + 1]) = "exists"

\* The i-th entry of the trace is the first `git commit`.
IsFirstCommit(i) ==
    /\ trace[i].name = "git commit -m init commit"
    /\ \A j \in 1..(i - 1) : trace[j].name # "git commit -m init commit"

\* C8 as stated: a command of the sequence that exits non-zero is the last
\* process setup starts, and setup returns False.
C8_AnyNonZeroExitAborts ==
    \A i \in DOMAIN trace :
        (IsCmd(trace[i]) /\ trace[i].name \in SETUP_COMMANDS /\ trace[i].rc # 0) =>
            (i = Len(trace) /\ setup.returned /\ ~setup.result)

\* The i-th entry of the trace is a command whose non-zero exit ends setup.
Aborting(i) ==
    /\ IsCmd(trace[i]) /\ trace[i].rc # 0
    /\ \/ trace[i].name \in {"git init -b main", "make install", "git add .",
                             "git status --porcelain", "git remote add origin",
                             "git push -u origin main"}
       \/ trace[i].name = "gh repo create" /\ ~SaysAlreadyExists(trace[i].out)
       \/ trace[i].name = "git commit -m init commit" /\ ~IsFirstCommit(i)

\* C8 amended: a non-zero exit of git init, make install, git add, git status,
\* the second git commit, git remote add or git push, or of gh repo create
\* without "already exists" on stderr, is the last process setup starts, and
\* setup returns False; after a non-zero first git commit setup goes on to
\* git status, and after "already exists" to git add.
C8_CheckedNonZeroExitAborts ==
    \A i \in DOMAIN trace :
        /\ Aborting(i) => (i = Len(trace) /\ setup.returned /\ ~setup.result)
        /\ (IsFirstCommit(i) /\ trace[i].rc # 0) =>
              IF i = Len(trace) THEN post_pc = "git_status"
              ELSE trace[i + 1].name = "git status --porcelain"
        /\ (trace[i].name = "gh repo create" /\ trace[i].rc # 0
                /\ SaysAlreadyExists(trace[i].out)) =>
              IF i = Len(trace) THEN post_pc = "git_add"
              ELSE trace[i + 1].name = "git add ."

C8_Witness ==
    /\ setup.returned /\ ~setup.result
    /\ \E i \in DOMAIN trace : IsFirstCommit(i) /\ trace[i].rc # 0
    /\ trace[Len(trace)] = CmdEvent("git push -u origin main", 1, <<>>)

\* Every deletion and rename the options call for has been done.
FileOperationsCompleted ==
    LET c == cookiecutter
        Kept(path) == Exists(tree, path)
    IN  /\ ~Kept(<<"tox.ini">>)
        /\ Kept(<<".github">>) <=> c.include_github_actions = "y"
        /\ Kept(<<".github", "workflows", "on-release-main.yml">>) <=>
              (c.include_github_actions = "y"
                 /\ (c.mkdocs = "y" \/ c.publish_to_pypi # "n"))
        /\ Kept(<<".github", "workflows", "validate-codecov-config.yml">>) <=>
              (c.include_github_actions = "y" /\ c.codecov = "y")
        /\ Kept(<<"docs">>) <=> c.mkdocs = "y"
        /\ Kept(<<"mkdocs.yml">>) <=> c.mkdocs = "y"
        /\ Kept(<<"Dockerfile">>) <=> c.dockerfile = "y"
        /\ Kept(<<"codecov.yaml">>) <=> c.codecov = "y"
        /\ Kept(<<".devcontainer">>) <=> c.devcontainer = "y"
        /\ \A f \in LICENSE_FILES : ~Kept(f)
        /\ Kept(<<"LICENSE">>) <=> c.open_source_license # "Not open source"
        /\ Kept(<<c.project_slug>>) <=> c.layout # "src"
        /\ Kept(<<"src", c.project_slug, "__init__.py">>) <=> c.layout = "src"

\* C10: no file operation follows an external command (prerequisite probes
\* included); when the first command is started every deletion and rename the
\* options call for has been done; commands are started only when
\* automate_github_setup is "y".
C10_FileOperationsBeforeCommands ==
    /\ \A j \in 2..Len(trace) : IsFileOp(trace[j]) => IsFileOp(trace[j - 1])
    /\ (\E i \in DOMAIN trace : IsCmd(trace[i])) =>
          /\ cookiecutter.automate_github_setup = "y"
          /\ FileOperationsCompleted

C10_Witness ==
    /\ post_pc = "done"
    /\ \E i \in DOMAIN trace : trace[i].name = "move_dir" /\ trace[i].rc = 0
    /\ \E i \in DOMAIN trace : trace[i].name = "remove_file" /\ trace[i].rc = 0
    /\ \E i \in DOMAIN trace : trace[i].name = "git init -b main"

\* The statements after remove_tox_ini().
AfterToxIni ==
    post_pc \notin {"idle", "python_version", "tox_ini", "crashed"}

\* C11: once remove_tox_ini() has run, and so when the hook completes, tox.ini
\* does not exist, whatever the options and whether or not it was rendered;
\* a tox.ini that was not rendered is not an error.
C11_NoToxIni ==
    /\ AfterToxIni => ~Exists(tree, <<"tox.ini">>)
    /\ post_pc = "crashed" => trace[Len(trace)].path # <<"tox.ini">>

C11_Witness ==
    /\ post_pc = "done"
    /\ ~Exists(tree, <<"tox.ini">>)
    /\ \E i \in DOMAIN trace :
          trace[i] = FileEvent("remove_file", <<"tox.ini">>, <<>>, 0)

\* The hook completed from a project the template rendered no tox.ini into.
C11_WitnessNotRendered ==
    /\ post_pc = "done"
    /\ \A i \in DOMAIN trace : trace[i].path # <<"tox.ini">>

\* The options of test_full_structure: everything included, an open-source
\* licence, the flat layout, no automated GitHub setup.
FullStructureOptions ==
    /\ post_pc # "idle"
    /\ cookiecutter.include_github_actions = "y"
    /\ cookiecutter.mkdocs = "y"
    /\ cookiecutter.dockerfile = "y"
    /\ cookiecutter.codecov = "y"
    /\ cookiecutter.devcontainer = "y"
    /\ cookiecutter.open_source_license # "Not open source"
    /\ cookiecutter.layout = "flat"
    /\ cookiecutter.automate_github_setup # "y"

\* The paths test_full_structure expects.
FULL_STRUCTURE ==
    { <<".devcontainer">>, <<".github">>, <<"Dockerfile">>, <<"codecov.yaml">>,
      <<"docs">>, <<"mkdocs.yml">>, <<"pyproject.toml">> }

\* C12: with the options of test_full_structure the hook does not fail, never
\* deletes or moves .devcontainer, .github, Dockerfile, codecov.yaml, docs,
\* mkdocs.yml, pyproject.toml or the package directory, which stays at the
\* project root, and ends with LICENSE in place and no setup run.
C12_FullStructureKept ==
    FullStructureOptions =>
        /\ post_pc # "crashed"
        /\ \A path \in FULL_STRUCTURE : Exists(tree, path)
        /\ IsDir(tree, <<cookiecutter.project_slug>>)
        /\ ~Exists(tree, <<"src", cookiecutter.project_slug>>)
        /\ \A i \in DOMAIN trace :
              /\ trace[i].rc = 0
              /\ trace[i].name # "write_text" =>
                    trace[i].path \notin FULL_STRUCTURE \cup {<<cookiecutter.project_slug>>}
        /\ post_pc = "done" =>
              /\ IsFile(tree, <<"LICENSE">>)
              /\ ~setup.called
              /\ \A i \in DOMAIN trace : IsFileOp(trace[i])

C12_Witness ==
    /\ FullStructureOptions
    /\ post_pc = "done"
    /\ IsFile(tree, <<"LICENSE">>)
    /\ IsDir(tree, <<".github">>)

\* Every process setup_github_repository starts after its prerequisite checks.
SETUP_SEQUENCE ==
    SETUP_COMMANDS \cup {"git status --porcelain", "git remote get-url origin"}

\* The i-th entry of the trace is a `git init` that succeeded.
IsGitInit(i) == trace[i] = CmdEvent("git init -b main", 0, <<>>)

\* A non-dry setup has returned False after `git init` succeeded.
SetupFailedAfterGitInit ==
    /\ post_pc = "done"
    /\ setup.called /\ ~setup.dry_run /\ setup.returned /\ ~setup.result
    /\ \E i \in DOMAIN trace : IsGitInit(i)

\* C14: when non-dry setup returns False after `git init` succeeded, the hook
\* ends with .git in place, with the repository on GitHub if `gh repo create`
\* had succeeded, and with the project as its deletions and renames left it;
\* after `git init` only commands of the setup sequence were started, none
\* that undoes one.
C14_NoRollback ==
    SetupFailedAfterGitInit =>
        /\ IsDir(tree, <<".git">>)
        /\ (\E i \in DOMAIN trace : trace[i] = CmdEvent("gh repo create", 0, <<>>))
              => remote.created
        /\ Without(tree, {<<".git">>}) = setup.tree0
        /\ FileOperationsCompleted
        /\ \A i \in DOMAIN trace : IsGitInit(i) =>
              \A j \in (i + 1)..Len(trace) :
                  IsCmd(trace[j]) /\ trace[j].name \in SETUP_SEQUENCE

C14_Witness ==
    /\ SetupFailedAfterGitInit
    /\ remote.created
    /\ IsDir(tree, <<".git">>)
    /\ trace[Len(trace)] = CmdEvent("git add .", 1, <<>>)
    /\ \E i \in DOMAIN trace : trace[i].name = "remove_dir" /\ trace[i].rc = 0

\* setup_github_repository(dry_run=True) has been called.
DrySetup == setup.called /\ setup.dry_run

\* C15: setup_github_repository(dry_run=True) starts no process, probes
\* included, changes neither the project directory nor GitHub, and returns
\* True.
C15_DrySetupRunsNothing ==
    DrySetup =>
        /\ \A i \in DOMAIN trace : ~IsCmd(trace[i])
        /\ tree = setup.tree0
        /\ remote = NoRemote
        /\ setup.returned <=> post_pc = "done"
        /\ setup.returned => setup.result

\* A dry setup returned True in a project where a live one fails its checks.
C15_Witness ==
    /\ DrySetup
    /\ post_pc = "done"
    /\ setup.result
    /\ Exists(tree, <<".git">>)

InTrace(e) == \E i \in DOMAIN trace : trace[i] = e

\* `git init` of the setup sequence has been started.
GitInitStarted == \E i \in DOMAIN trace : trace[i].name = "git init -b main"

\* What the prerequisite checks of a non-dry setup found, read off the
\* arguments, the tree at the call and the trace.
NameValid == ~NameInvalid(setup.project_name)
NoGitDir == ~Exists(setup.tree0, <<".git">>)
GhInstalled == InTrace(check_command_exists("gh", TRUE))
GitInstalled == InTrace(check_command_exists("git", TRUE))
GhAuthenticated == InTrace(CmdEvent("gh auth status", 0, <<>>))
GitIdentitySet ==
    /\ \E i \in DOMAIN trace :
          trace[i].name = "git config user.name" /\ trace[i].rc = 0 /\ trace[i].out # <<>>
    /\ \E i \in DOMAIN trace :
          trace[i].name = "git config user.email" /\ trace[i].rc = 0 /\ trace[i].out # <<>>
SshConnected ==
    \E i \in DOMAIN trace :
        trace[i].name = "ssh -T git@github.com" /\ trace[i].out = SSH_GREETING

\* All the blocking checks held.
PrerequisitesHeld ==
    /\ NameValid /\ NoGitDir /\ GhInstalled /\ GitInstalled
    /\ GhAuthenticated /\ GitIdentitySet
    /\ setup.protocol = "ssh" => SshConnected

\* The checks are over: the connectivity check was made, or setup returned
\* before it.
ChecksOver ==
    /\ setup.called /\ ~setup.dry_run
    /\ setup.returned \/ setup.protocol # ""

\* C16: a non-dry setup starts `git init` only when every blocking check held
\* (with https the connectivity check is not one of them); when one did not,
\* setup returns False and has started no command of the setup sequence; when
\* all held, setup goes on to `git init`.
C16_GitInitOnlyAfterChecks ==
    setup.called =>
        LET held == PrerequisitesHeld
        IN  /\ GitInitStarted => held
            /\ (ChecksOver /\ ~held) =>
                  /\ setup.returned /\ ~setup.result
                  /\ post_pc = "done"
                  /\ \A i \in DOMAIN trace :
                        IsCmd(trace[i]) => trace[i].name \notin SETUP_SEQUENCE
            /\ (ChecksOver /\ held) =>
                  (post_pc = "git_init" \/ GitInitStarted)

\* With https the credential helper was not configured, and `git init` ran.
C16_Witness ==
    /\ GitInitStarted
    /\ setup.protocol = "https"
    /\ InTrace(CmdEvent("git config --get credential.helper", 1, <<>>))

\* The i-th entry of the trace is a `gh repo create` that exited non-zero.
GhCreateFailed(i) ==
    IsCmd(trace[i]) /\ trace[i].name = "gh repo create" /\ trace[i].rc # 0

STAGING_COMMANDS ==
    {"git add .", "git commit -m init commit", "git remote add origin",
     "git push -u origin main"}

\* C17: when `gh repo create` exits non-zero in a setup that is not a dry run,
\* then if its stderr has "already exists" in it, in any case, setup goes on
\* to git add; otherwise it is the last process setup starts, setup returns
\* False, and none of git add, git commit, git remote add, git push has run.
C17_AlreadyExistsContinues ==
    \A i \in DOMAIN trace :
        GhCreateFailed(i) =>
            IF SaysAlreadyExists(trace[i].out)
            THEN IF i = Len(trace)
                 THEN post_pc = "git_add" /\ ~setup.returned
                 ELSE trace[i + 1].name = "git add ."
            ELSE /\ i = Len(trace)
                 /\ setup.returned /\ ~setup.result
                 /\ \A j \in DOMAIN trace : trace[j].name \notin STAGING_COMMANDS

\* The repository was reported as existing in capitals, and setup went on to
\* a successful push.
C17_Witness ==
    /\ setup.returned /\ setup.result
    /\ \E i \in DOMAIN trace :
          GhCreateFailed(i) /\ trace[i].out = <<"Repository", "Already", "Exists">>
    /\ trace[Len(trace)] = CmdEvent("git push -u origin main", 0, <<>>)

\* A failure of another kind ended setup.
C17_WitnessOtherError ==
    /\ setup.returned /\ ~setup.result
    /\ Len(trace) > 0
    /\ trace[Len(trace)] = CmdEvent("gh repo create", 1, <<"exists", "already">>)

\* The commands of a complete setup, in order: dirty when git status printed
\* something after the first commit, origin when the remote was there.
CommandOrder(dirty, origin) ==
    << "git init -b main", "make install", "gh repo create", "git add .",
       "git commit -m init commit", "git status --porcelain" >>
    \o (IF dirty THEN <<"git add .", "git commit -m init commit">> ELSE <<>>)
    \o <<"git remote get-url origin">>
    \o (IF origin THEN <<>> ELSE <<"git remote add origin">>)
    \o <<"git push -u origin main">>

\* The trace ends with the commands of order and has none of them before;
\* git status and git remote get-url answered as dirty and origin say.
RanInOrder(order, dirty, origin) ==
    LET first == Len(trace) - Len(order)
    IN  /\ first >= 0
        /\ \A k \in 1..Len(order) :
              IsCmd(trace[first + k]) /\ trace[first + k].name = order[k]
        /\ \A j \in 1..first : trace[j].name \notin SETUP_SEQUENCE
        /\ (trace[first + 6].out # <<>>) = dirty
        /\ (trace[first + (IF dirty THEN 9 ELSE 7)].rc = 0) = origin

SetupSucceeded == setup.called /\ ~setup.dry_run /\ setup.returned /\ setup.result

\* C18: a setup that is not a dry run and returns True has run git init,
\* make install, gh repo create, git add, git commit, git status, a second
\* git add and git commit exactly when git status printed something, git
\* remote get-url, git remote add exactly when get-url found no origin, and
\* last git push, which exited 0.
C18_SuccessRanCommandsInOrder ==
    SetupSucceeded =>
        /\ \E dirty \in BOOLEAN, origin \in BOOLEAN :
              RanInOrder(CommandOrder(dirty, origin), dirty, origin)
        /\ trace[Len(trace)].rc = 0

\* The longest successful setup: a second commit and a remote to add.
C18_Witness ==
    /\ SetupSucceeded
    /\ RanInOrder(CommandOrder(TRUE, FALSE), TRUE, FALSE)
    /\ trace[Len(trace)] = CmdEvent("git push -u origin main", 0, <<>>)

\* The shortest one: nothing to commit again, origin already there.
C18_WitnessShortest ==
    /\ SetupSucceeded
    /\ RanInOrder(CommandOrder(FALSE, TRUE), FALSE, TRUE)

\* A deletion or a rename of the hook.
IsDeleteOrRename(e) ==
    IsFileOp(e) /\ e.name \in {"remove_file", "remove_dir", "move_file", "move_dir"}

\* C19: from a project with every optional file and directory rendered, no
\* deletion or rename of the hook fails for a missing path, whatever the
\* options, and the hook is not ended by one; a file under .github is deleted
\* only in a project that keeps .github.
C19_NoMissingPath ==
    /\ post_pc # "crashed"
    /\ \A i \in DOMAIN trace :
          IsDeleteOrRename(trace[i]) =>
              /\ trace[i].rc = 0
              /\ (Len(trace[i].path) > 1 /\ trace[i].path[1] = ".github") =>
                    cookiecutter.include_github_actions = "y"

\* .github was deleted and codecov turned off too; the hook came to its end,
\* the package moved under src.
C19_Witness ==
    /\ post_pc = "done"
    /\ cookiecutter.include_github_actions = "n"
    /\ cookiecutter.codecov = "n"
    /\ cookiecutter.mkdocs = "n"
    /\ cookiecutter.publish_to_pypi = "n"
    /\ cookiecutter.layout = "src"
    /\ \E i \in DOMAIN trace : trace[i] = FileEvent("remove_dir", <<".github">>, <<>>, 0)
    /\ \E i \in DOMAIN trace : trace[i] = FileEvent("remove_file", <<"codecov.yaml">>, <<>>, 0)
    /\ \E i \in DOMAIN trace : trace[i].name = "move_dir" /\ trace[i].rc = 0

\* .github was kept and two of its workflows deleted.
C19_WitnessWorkflows ==
    /\ post_pc = "done"
    /\ cookiecutter.include_github_actions = "y"
    /\ \E i \in DOMAIN trace :
          trace[i].path = <<".github", "workflows", "on-release-main.yml">>
    /\ \E i \in DOMAIN trace :
          trace[i].path = <<".github", "workflows", "validate-codecov-config.yml">>

====
